---- MODULE Spec2Model ----
(***************************************************************************)
(* duck-server: the server-side request pipeline.                          *)
(*   error taxonomy and envelope  (server/core/error.ts, response.ts)      *)
(*   middleware engine            (server/core/middleware.ts)              *)
(*   procedure builder and _call  (server/core/procedure.ts)               *)
(*   router and its lazy index    (server/core/router.ts)                  *)
(*   HTTP adapter                 (server/http/fetch.ts)                   *)
(*   codec                        (server/serialization/codec.ts)          *)
(*                                                                         *)
(* JavaScript strings that the code inspects character by character (URL   *)
(* path names, router keys) are sequences of one-character strings.        *)
(* Opaque strings (codes, messages) are TLA+ strings.  A JavaScript        *)
(* `undefined` in a string-typed slot is the token Undef.                  *)
(***************************************************************************)
EXTENDS Integers, Sequences, FiniteSets, TLC

\* ------------------------------------------------------------------ bounds
\* Largest number of middlewares attached to the procedure under test.
MaxMw == 2

\* ------------------------------------------------------------ value tokens
Undef == "undefined"
\* A code slot holding a non-string value (for instance the number 401).
NumCode == "#401"
EmptyIssues == "[]"
SomeIssues == "[issue]"
INTERNAL == "RPC_INTERNAL_SERVER_ERROR"
NextTwiceMsg == "next() called multiple times"

IsString(c) == c \notin {Undef, NumCode}
Truthy(s) == s \notin {Undef, ""}

\* ------------------------------------------------------------- code table
RPC_CODES ==
  [c \in {"RPC_OK", "RPC_CREATED", "RPC_BAD_REQUEST", "RPC_UNAUTHORIZED",
          "RPC_FORBIDDEN", "RPC_NOT_FOUND", "RPC_METHOD_NOT_ALLOWED",
          "RPC_TIMEOUT", "RPC_CONFLICT", "RPC_PRECONDITION_FAILED",
          "RPC_PAYLOAD_TOO_LARGE", "RPC_UNSUPPORTED_MEDIA_TYPE",
          "RPC_TOO_MANY_REQUESTS", "RPC_PARSE_ERROR", "RPC_VALIDATION_ERROR",
          "RPC_PROCEDURE_NOT_FOUND", "RPC_CONTEXT_ERROR",
          "RPC_MIDDLEWARE_ERROR", "RPC_SERIALIZATION_ERROR",
          "RPC_INTERNAL_SERVER_ERROR", "RPC_NOT_IMPLEMENTED",
          "RPC_BAD_GATEWAY", "RPC_SERVICE_UNAVAILABLE",
          "RPC_GATEWAY_TIMEOUT"} |->
     CASE c = "RPC_OK" -> 200
       [] c = "RPC_CREATED" -> 201
       [] c = "RPC_BAD_REQUEST" -> 400
       [] c = "RPC_UNAUTHORIZED" -> 401
       [] c = "RPC_FORBIDDEN" -> 403
       [] c = "RPC_NOT_FOUND" -> 404
       [] c = "RPC_METHOD_NOT_ALLOWED" -> 405
       [] c = "RPC_TIMEOUT" -> 408
       [] c = "RPC_CONFLICT" -> 409
       [] c = "RPC_PRECONDITION_FAILED" -> 412
       [] c = "RPC_PAYLOAD_TOO_LARGE" -> 413
       [] c = "RPC_UNSUPPORTED_MEDIA_TYPE" -> 415
       [] c = "RPC_TOO_MANY_REQUESTS" -> 429
       [] c = "RPC_PARSE_ERROR" -> 460
       [] c = "RPC_VALIDATION_ERROR" -> 461
       [] c = "RPC_PROCEDURE_NOT_FOUND" -> 462
       [] c = "RPC_CONTEXT_ERROR" -> 463
       [] c = "RPC_MIDDLEWARE_ERROR" -> 464
       [] c = "RPC_SERIALIZATION_ERROR" -> 465
       [] c = "RPC_INTERNAL_SERVER_ERROR" -> 500
       [] c = "RPC_NOT_IMPLEMENTED" -> 501
       [] c = "RPC_BAD_GATEWAY" -> 502
       [] c = "RPC_SERVICE_UNAVAILABLE" -> 503
       [] c = "RPC_GATEWAY_TIMEOUT" -> 504]

\* RPC_CODES[code]: the set holding the status, or {} for JavaScript's
\* undefined when the code is not a key of the table.
CodeLookup(code) ==
  IF code \in DOMAIN RPC_CODES THEN {RPC_CODES[code]} ELSE {}

\* a ?? b on a looked-up status.
OrElse(s, dflt) == IF s = {} THEN dflt ELSE CHOOSE x \in s : TRUE

\* ------------------------------------------------------------ error values
\* A JavaScript value that is thrown, or returned as a middleware error:
\*   inst     "Error" (instanceof Error), "object" (a plain object) or
\*            "primitive" (string, number, null, undefined)
\*   code, message, issues   its properties, Undef when absent
\*   stack    the stack trace every Error instance records
\*   cause    Undef, or Wrapped when the error wraps another value.
Wrapped == "cause"
ErrVal(inst, code, message, issues) ==
  [inst |-> inst, code |-> code, message |-> message, issues |-> issues,
   stack |-> IF inst = "Error" THEN "stack" ELSE Undef, cause |-> Undef]

createRPCError(code, message, issues) ==
  ErrVal("Error", code, message, IF issues = Undef THEN EmptyIssues ELSE issues)

isRPCError(e) == e.inst = "Error" /\ IsString(e.code)

\* rpcErrorFrom - as it would be if every object with a string code passed
\* for an RPC error.
rpcErrorFrom_duck(e) ==
  IF e.inst # "primitive" /\ IsString(e.code) THEN e
  ELSE IF e.inst = "Error" THEN createRPCError(INTERNAL, e.message, Undef)
  ELSE createRPCError(INTERNAL, "Unknown error", Undef)

rpcErrorFrom(e) ==
  IF isRPCError(e) THEN e
  ELSE IF e.inst = "Error"
  THEN [createRPCError(INTERNAL, e.message, Undef) EXCEPT !.cause = Wrapped]
  ELSE [createRPCError(INTERNAL, "Unknown error", Undef) EXCEPT !.cause = Wrapped]

\* ---------------------------------------------------------------- envelope
\* data of an envelope: v names the value, parsed says whether a schema
\* produced it.
Data(v, parsed) == [v |-> v, parsed |-> parsed]
NoData == Data("none", FALSE)
NoError == [code |-> Undef, message |-> Undef, issues |-> Undef]

rpcOk(data, code) == [ok |-> TRUE, code |-> code, data |-> data, error |-> NoError]

rpcErr(code, message, issues) ==
  [ok |-> FALSE, code |-> code, data |-> NoData,
   error |-> [code |-> code,
              message |-> IF message = Undef THEN "NOT_PROVIDED" ELSE message,
              issues |-> IF issues = Undef THEN EmptyIssues ELSE issues]]

\* rpcToErr - as it would be if it put the converted error itself into
\* the envelope.
rpcToErr_whole(e) ==
  LET de == rpcErrorFrom(e)
      status == OrElse(CodeLookup(de.code), RPC_CODES[INTERNAL])
  IN  <<[ok |-> FALSE, code |-> de.code, data |-> NoData, error |-> de], status>>

\* rpcToErr, lines 33-37.
rpcToErr(e) ==
  LET de == rpcErrorFrom(e)
      status == OrElse(CodeLookup(de.code), RPC_CODES[INTERNAL])
  IN  <<rpcErr(de.code, de.message, de.issues), status>>

\* ------------------------------------------------------ procedure builder
\* ProcedureState of createProcedure; a schema slot is Undef or a schema.
InitialState ==
  [middlewares |-> <<>>, inputSchema |-> Undef, outputSchema |-> Undef,
   validation |-> "on"]

\* use() that puts the new middleware in front of the list.
use_prepend(s, middleWare) ==
  [middlewares |-> <<middleWare>> \o s.middlewares,
   inputSchema |-> s.inputSchema,
   outputSchema |-> s.outputSchema,
   validation |-> s.validation]

use(s, middleWare) ==
  [middlewares |-> Append(s.middlewares, middleWare),
   inputSchema |-> s.inputSchema,
   outputSchema |-> s.outputSchema,
   validation |-> s.validation]

input(s, schema) ==
  [middlewares |-> s.middlewares,
   inputSchema |-> schema,
   outputSchema |-> s.outputSchema,
   validation |-> s.validation]

output(s, schema) ==
  [middlewares |-> s.middlewares,
   inputSchema |-> s.inputSchema,
   outputSchema |-> schema,
   validation |-> s.validation]

\* validation(value) rebuilds the state from the middlewares and the mode
\* only: both schema slots of the new state are undefined.
validation(s, value) ==
  [middlewares |-> s.middlewares,
   inputSchema |-> Undef,
   outputSchema |-> Undef,
   validation |-> value]

\* composeMiddlewares(middlewares): the function it returns closes over
\* the list it was given, and is represented by that list.
composeMiddlewares(middlewares) == middlewares

\* make(type, resolver): the procedure definition closes over the state and
\* over run, the chain composed here; composed counts the calls of
\* composeMiddlewares made for the procedure.
make(type, s) ==
  [made |-> TRUE, type |-> type, state |-> s,
   run |-> composeMiddlewares(s.middlewares), composed |-> 1]

NoProc ==
  [made |-> FALSE, type |-> "query", state |-> InitialState, run |-> <<>>,
   composed |-> 0]

\* ------------------------------------------------------- schema adapter
\* parseInput / parseOutput: a schema accepts the value named "ok" (and the
\* BigInt value "big") and returns its parsed form; it rejects every other
\* value by throwing a typed RPC error.
SchemaAccepts(d) == d.v \in {"ok", "big"}

parseInput(schema, raw) ==
  IF SchemaAccepts(raw)
  THEN [threw |-> FALSE, value |-> Data(raw.v, TRUE),
        exc |-> ErrVal("primitive", Undef, Undef, Undef)]
  ELSE [threw |-> TRUE, value |-> raw,
        exc |-> createRPCError("RPC_BAD_REQUEST", "Validation failed", SomeIssues)]

parseOutput(schema, raw) ==
  IF SchemaAccepts(raw)
  THEN [threw |-> FALSE, value |-> Data(raw.v, TRUE),
        exc |-> ErrVal("primitive", Undef, Undef, Undef)]
  ELSE [threw |-> TRUE, value |-> raw,
        exc |-> createRPCError(INTERNAL, "Output validation failed", SomeIssues)]

\* ------------------------------------------------------------- outcomes
\* How an asynchronous function settles: with an envelope, or by throwing.
NoEnvelope == [ok |-> FALSE, code |-> Undef, data |-> NoData, error |-> NoError]
NoExc == ErrVal("primitive", Undef, Undef, Undef)
None == [kind |-> "none", env |-> NoEnvelope, exc |-> NoExc]
Ret(env) == [kind |-> "env", env |-> env, exc |-> NoExc]
Thrown(e) == [kind |-> "exc", env |-> NoEnvelope, exc |-> e]

\* ---------------------------------------------------------------- strings
\* String.prototype.startsWith
startsWith(str, prefix) ==
  /\ Len(prefix) <= Len(str)
  /\ SubSeq(str, 1, Len(prefix)) = prefix

\* String.prototype.slice(start), start counted from 0
slice(str, start) == SubSeq(str, start + 1, Len(str))

\* String.prototype.split(sep) for a one-character separator
RECURSIVE splitFrom(_, _, _, _)
splitFrom(str, sep, j, cur) ==
  IF j > Len(str) THEN <<cur>>
  ELSE IF str[j] = sep THEN <<cur>> \o splitFrom(str, sep, j + 1, <<>>)
  ELSE splitFrom(str, sep, j + 1, Append(cur, str[j]))
split(str, sep) == splitFrom(str, sep, 1, <<>>)

\* Array.prototype.join(sep)
RECURSIVE join(_, _)
join(parts, sep) ==
  IF parts = <<>> THEN <<>>
  ELSE IF Len(parts) = 1 THEN parts[1]
  ELSE parts[1] \o <<sep>> \o join(Tail(parts), sep)

\* ----------------------------------------------------------------- router
\* A value of a router record: a procedure definition, a router, or
\* anything else.
ProcNode(def) == [kind |-> "procedure", def |-> def, record |-> <<>>]
RouterNode(record) == [kind |-> "router", def |-> NoProc, record |-> record]

\* createRouter: the record is a sequence of <<key, value>> in key order.
createRouter(record) == RouterNode(record)

isProcedure(x) == x.kind = "procedure"
isRPCRouter(x) == x.kind = "router"

\* A JavaScript Map: a sequence of <<key, value>> in insertion order.
RECURSIVE MapSet(_, _, _)
MapSet(m, key, val) ==
  IF m = <<>> THEN <<<<key, val>>>>
  ELSE IF m[1][1] = key THEN <<<<key, val>>>> \o Tail(m)
  ELSE <<m[1]>> \o MapSet(Tail(m), key, val)

\* Map.get: the set holding the value, {} for undefined.
MapGet(m, key) == {m[j][2] : j \in {j \in 1..Len(m) : m[j][1] = key}}

\* joinPath - as it would be if it kept the last name only.
joinPath_last(path) == IF path = <<>> THEN <<>> ELSE path[Len(path)]

joinPath(path) == join(path, ".")

\* buildRouterIndex: visit(node, prefix) over rec = node._def.record from
\* entry j on, acc being the two maps so far.
RECURSIVE visit(_, _, _, _)
visit(rec, j, prefix, acc) ==
  IF j > Len(rec) THEN acc
  ELSE LET key == rec[j][1]
           val == rec[j][2]
           nextPath == Append(prefix, key)
       IN IF isProcedure(val)
          THEN visit(rec, j + 1, prefix,
                     [acc EXCEPT !.procs = MapSet(@, joinPath(nextPath), val.def)])
          ELSE IF isRPCRouter(val)
          THEN visit(rec, j + 1, prefix,
                     visit(val.record, 1, nextPath,
                           [acc EXCEPT !.routers = MapSet(@, joinPath(nextPath), val.record)]))
          ELSE visit(rec, j + 1, prefix, acc)

\* An index of the procedures at the top of the record only.
buildRouterIndex_shallow(router) ==
  [built |-> TRUE,
   procs |-> visit(SelectSeq(router.record, LAMBDA e : isProcedure(e[2])), 1, <<>>,
                   [built |-> TRUE, procs |-> <<>>, routers |-> <<>>]).procs,
   routers |-> <<>>]

\* buildRouterIndex, lines 45-70: the maps are locals of the call.
buildRouterIndex(router) ==
  visit(router.record, 1, <<>>, [built |-> TRUE, procs |-> <<>>, routers |-> <<>>])

\* ROUTER_INDEX before the first access.
NoIndex == [built |-> FALSE, procs |-> <<>>, routers |-> <<>>]

\* getRouterIndex - as it would be if it built the index on every access.
getRouterIndex_rebuild(cache, router) == buildRouterIndex(router)

\* getRouterIndex: the cached index, built on first access.
getRouterIndex(cache, router) == IF cache.built THEN cache ELSE buildRouterIndex(router)

\* getProcedureAtPath, given the index getRouterIndex returned: the set
\* holding the procedure, {} for null.
getProcedureAtPath(index, path) == MapGet(index.procs, joinPath(path))

\* ------------------------------------------------------------------ codec
CBOR_CONTENT_TYPE == "application/cbor"

\* Header values are strings of characters; charAt(str, j) is the j-th one.
charAt(str, j) == SubSeq(str, j, j)

UpperCase == "ABCDEFGHIJKLMNOPQRSTUVWXYZ"
LowerCase == "abcdefghijklmnopqrstuvwxyz"

\* String.prototype.toLowerCase
RECURSIVE toLowerCase(_)
toLowerCase(str) ==
  IF str = "" THEN ""
  ELSE LET c == charAt(str, 1)
           up == {j \in 1..Len(UpperCase) : charAt(UpperCase, j) = c}
       IN  (IF up = {} THEN c ELSE charAt(LowerCase, CHOOSE j \in up : TRUE))
             \o toLowerCase(SubSeq(str, 2, Len(str)))

\* String.prototype.includes
includes(str, search) ==
  \E j \in 1..(Len(str) - Len(search) + 1) :
    SubSeq(str, j, j + Len(search) - 1) = search

\* str.split(sep, 1)[0]: the part before the first separator
firstField(str, sep) ==
  LET at == {j \in 1..Len(str) : charAt(str, j) = sep} IN
  IF at = {} THEN str
  ELSE SubSeq(str, 1, (CHOOSE j \in at : \A h \in at : j <= h) - 1)

\* String.prototype.trim
RECURSIVE trim(_)
trim(str) ==
  IF str = "" THEN ""
  ELSE IF charAt(str, 1) = " " THEN trim(SubSeq(str, 2, Len(str)))
  ELSE IF charAt(str, Len(str)) = " " THEN trim(SubSeq(str, 1, Len(str) - 1))
  ELSE str

\* isCborContentType: Undef is the absent header (null).
isCborContentType(contentType) ==
  /\ contentType # Undef /\ contentType # ""
  /\ toLowerCase(trim(firstField(contentType, ";"))) = CBOR_CONTENT_TYPE

\* resolveResponseFormat - as it would be if only Accept were consulted.
resolveResponseFormat_acceptOnly(req) ==
  IF req.accept # Undef /\ includes(toLowerCase(req.accept), CBOR_CONTENT_TYPE)
  THEN "cbor" ELSE "json"

resolveResponseFormat(req) ==
  IF req.accept # Undef /\ includes(toLowerCase(req.accept), CBOR_CONTENT_TYPE)
  THEN "cbor"
  ELSE IF isCborContentType(req.contentType) THEN "cbor"
  ELSE "json"

\* A request body as its reader decodes it:
\*   shape   "record" (a plain object), "array", "scalar" (a value that is
\*           no object: a number, a string, null), "garbage" (bytes that do
\*           not decode), "none"
Body(shape, type, inp) == [shape |-> shape, type |-> type, input |-> inp]
NoBody == Body("none", Undef, [v |-> Undef, parsed |-> FALSE])
NullBody == Body("scalar", Undef, [v |-> Undef, parsed |-> FALSE])

\* decodeRequestBody: a CBOR body that does not decode throws; a JSON body
\* that does not decode is null.
decodeRequestBody(contentType, body) ==
  IF isCborContentType(contentType)
  THEN [threw |-> body.shape \in {"garbage", "none"}, body |-> body, format |-> "cbor"]
  ELSE [threw |-> FALSE,
        body |-> IF body.shape \in {"garbage", "none"} THEN NullBody ELSE body,
        format |-> "json"]

\* JSON.stringify throws on a BigInt; the CBOR encoder encodes it.
serializeThrows(body, format) == format = "json" /\ body.data.v = "big"

\* withContentType(headers, contentType) over the default headers: the
\* content-type the response carries.
withContentType(contentType) == contentType

\* serializeResponse - as it would be if it ignored the format.
serializeResponse_json(body, status, format) ==
  [status |-> OrElse(status, 200), body |-> body, format |-> "json",
   contentType |-> withContentType("application/json")]

\* new Response(body, { status, headers }): an undefined status is 200.
serializeResponse(body, status, format) ==
  [status |-> OrElse(status, 200), body |-> body, format |-> format,
   contentType |-> IF format = "cbor" THEN withContentType(CBOR_CONTENT_TYPE)
                   ELSE withContentType("application/json")]

NoResponse ==
  [status |-> 0, body |-> NoEnvelope, format |-> "json",
   contentType |-> Undef]

\* ----------------------------------------------------------- HTTP adapter
\* The default endpoint, '/rpc'.
Endpoint == <<"/", "r", "p", "c">>

Request(method, pathname, query, accept, contentType, body) ==
  [method |-> method, pathname |-> pathname, query |-> query,
   accept |-> accept, contentType |-> contentType, body |-> body]

NoReq == Request("GET", <<>>, <<>>, Undef, Undef, NoBody)

\* parsePath(url, endpointLen)
parsePath(pathname, endpointLen) ==
  LET start == IF endpointLen + 1 <= Len(pathname) /\ pathname[endpointLen + 1] = "/"
               THEN endpointLen + 1 ELSE endpointLen
      pathStr == slice(pathname, start)
  IN  IF pathStr # <<>> THEN split(pathStr, ".") ELSE <<>>

\* URLSearchParams.get: the first value of the key, {} for null.
searchGet(query, key) ==
  LET hits == {j \in 1..Len(query) : query[j][1] = key} IN
  IF hits = {} THEN {}
  ELSE {query[CHOOSE j \in hits : \A h \in hits : j <= h][2]}

\* JSON.parse of an `input` parameter: the texts that are JSON, and the
\* value each decodes to.
JsonTexts == {"{ok}", "{bad}"}
jsonParse(text) == IF text = "{ok}" THEN "ok" ELSE "bad"

\* A loop that leaves no parameter out of the object.
skipsParam_none(k) == FALSE

\* Line 108: `if (k === 'type') continue`.
skipsParam(k) == k = "type"

\* Lines 106-110: obj[k] = v for every entry of the query from entry j on
\* whose key is not 'type'; a key that comes again takes the later value.
RECURSIVE flatParams(_, _, _)
flatParams(query, j, obj) ==
  IF j > Len(query) THEN obj
  ELSE flatParams(query, j + 1,
                  IF skipsParam(query[j][1]) THEN obj
                  ELSE MapSet(obj, query[j][1], query[j][2]))

\* parseGetEnvelope, lines 94-116.  The input "params" stands for the object
\* built from the query parameters, which is the field obj.
parseGetEnvelope(query) ==
  LET typeParam == searchGet(query, "type")
      inputParam == searchGet(query, "input")
      obj == flatParams(query, 1, <<>>)
      text == CHOOSE t \in inputParam : TRUE
  IN  [threw |-> FALSE,
       exc |-> NoExc,
       type |-> IF typeParam = {} THEN "query" ELSE CHOOSE t \in typeParam : TRUE,
       rawInput |->
         IF inputParam # {}
         THEN (IF text \in JsonTexts THEN Data(jsonParse(text), FALSE)
               ELSE Data(text, FALSE))
         ELSE IF Len(obj) > 0 THEN Data("params", FALSE)
         ELSE Data(Undef, FALSE),
       obj |-> IF inputParam = {} THEN obj ELSE <<>>]

\* No GET request parsed yet.
IdleGet == [query |-> <<>>, parsed |-> FALSE, envelope |-> parseGetEnvelope(<<>>)]

\* A check that takes every decoded value for a record.
isRecord_any(v) == TRUE

\* isRecord, lines 143-145: typeof v === 'object' && v !== null, which an
\* array satisfies too.
isRecord(v) == v.shape \in {"record", "array"}

\* parsePostEnvelope, lines 120-140.
parsePostEnvelope(contentType, body) ==
  LET decoded == decodeRequestBody(contentType, body) IN
  IF decoded.threw
  THEN [threw |-> TRUE,
        exc |-> [createRPCError("RPC_BAD_REQUEST", "Invalid CBOR body", Undef)
                   EXCEPT !.cause = Wrapped],
        type |-> Undef, rawInput |-> Data(Undef, FALSE)]
  ELSE IF ~isRecord(decoded.body)
  THEN [threw |-> TRUE,
        exc |-> createRPCError("RPC_BAD_REQUEST",
                  IF decoded.format = "cbor" THEN "Invalid CBOR body"
                  ELSE "Invalid JSON body", Undef),
        type |-> Undef, rawInput |-> Data(Undef, FALSE)]
  ELSE [threw |-> FALSE, exc |-> NoExc,
        type |-> decoded.body.type, rawInput |-> decoded.body.input]

\* Line 69 - as it would be if it answered with RPC_BAD_REQUEST.
procedureNotFound_badRequest ==
  createRPCError("RPC_BAD_REQUEST", "Procedure not found", Undef)

\* fetchRequestHandler, line 69: what is thrown when the lookup gives null.
procedureNotFound == createRPCError("RPC_NOT_FOUND", "Procedure not found", Undef)

\* Line 72 - as it would be if the check were absent.
typeMismatch_never(procType, type) == FALSE

\* fetchRequestHandler, line 72: `proc._type !== type`
typeMismatch(procType, type) == procType # type

\* ------------------------------------------------------- rpcToErr inputs
\* The values rpcToErr is applied to: Error instances (their message is
\* always a string), plain objects with any of the properties, and values
\* without properties (a string, a number, null, undefined, an array).
ErrorCodes == {Undef, NumCode, "RPC_NOT_FOUND", "RPC_VALIDATION_ERROR", "RPC_CUSTOM", "ENOENT"}
ToErrorInputs ==
  {ErrVal("Error", c, msg, i) :
     c \in ErrorCodes, msg \in {"", "boom"}, i \in {Undef, EmptyIssues, SomeIssues}}
  \cup {ErrVal("object", c, msg, i) :
     c \in ErrorCodes, msg \in {Undef, "", "boom"}, i \in {Undef, EmptyIssues, SomeIssues}}
  \cup {ErrVal("primitive", Undef, Undef, Undef)}

IdleFx == [arg |-> ErrVal("primitive", Undef, Undef, Undef), applied |-> FALSE,
           out |-> <<NoEnvelope, 0>>]

\* ------------------------------------------------------ low-level client
\* baseUrl.replace(/\/+$/, '')
RECURSIVE stripTrailingSlashes(_)
stripTrailingSlashes(str) ==
  IF str # "" /\ charAt(str, Len(str)) = "/"
  THEN stripTrailingSlashes(SubSeq(str, 1, Len(str) - 1)) ELSE str

\* path.replace(/^\/+/, '')
RECURSIVE stripLeadingSlashes(_)
stripLeadingSlashes(str) ==
  IF str # "" /\ charAt(str, 1) = "/"
  THEN stripLeadingSlashes(SubSeq(str, 2, Len(str))) ELSE str

\* joinUrl(baseUrl, endpoint, path)
joinUrl(baseUrl, endpoint, path) ==
  LET base == stripTrailingSlashes(baseUrl)
      ep == IF endpoint # "" /\ charAt(endpoint, 1) = "/" THEN endpoint
            ELSE "/" \o endpoint
      p == stripLeadingSlashes(path)
  IN  base \o ep \o "/" \o p

\* createRPCClient(opts).call(path, type, input): the arguments of the one
\* fetch it issues.  The method is 'POST' for either type (line 68).
clientCall(opts, path, type, rawInput) ==
  LET format == IF opts.format = Undef THEN "json" ELSE opts.format
      endpoint == IF opts.endpoint = Undef THEN "/rpc" ELSE opts.endpoint
      mime == IF format = "cbor" THEN CBOR_CONTENT_TYPE ELSE "application/json"
  IN  [url |-> joinUrl(opts.baseUrl, endpoint, path),
       method |-> "POST",
       contentType |-> mime, accept |-> mime,
       body |-> [type |-> type, input |-> rawInput, format |-> format]]

\* client.query(path, input) and client.mutation(path, input).
query(opts, path, rawInput) == clientCall(opts, path, "query", rawInput)
mutation(opts, path, rawInput) == clientCall(opts, path, "mutation", rawInput)

NoFetch ==
  [url |-> "", method |-> "", contentType |-> "", accept |-> "",
   body |-> [type |-> "", input |-> Undef, format |-> ""]]

\* The options a client is created with, and the calls made on it.
ClientOptions ==
  [baseUrl : {"http://localhost", "http://localhost:3000/", "http://h//"},
   endpoint : {Undef, "/rpc", "api"},
   format : {Undef, "json", "cbor"}]
ClientPaths == {"test.path", "hello", "/upload.deleteBucket"}
ClientInputs == {Undef, "value"}

IdleClient ==
  [opts |-> [baseUrl |-> "", endpoint |-> Undef, format |-> Undef],
   wrapper |-> "none", path |-> "", input |-> Undef, called |-> FALSE,
   fetched |-> NoFetch]

\* ------------------------------------------------------ objects of a router
\* The procedure definitions a router holds are objects with an identity.
DefIds == {1, 2}

\* The object make() returns (procedure.ts:85-113): its _call is named by
\* the object it was made for.
ProcObject(type, call) == [_kind |-> "procedure", _type |-> type, _call |-> call]

InitialDefs ==
  [id \in DefIds |-> ProcObject(IF id = 1 THEN "query" ELSE "mutation",
                                IF id = 1 THEN "call1" ELSE "call2")]

\* A value of a record that refers to the definition object id.
ProcRef(id) == [kind |-> "ref", def |-> id, record |-> <<>>]

\* The records createRouter is given.
RouterRecords ==
  << << <<<<"a">>, ProcRef(1)>>,
        <<<<"s">>, createRouter(<< <<<<"b">>, ProcRef(2)>> >>)>> >>,
     << <<<<"s">>, createRouter(<<
             <<<<"t">>, createRouter(<< <<<<"c">>, ProcRef(1)>> >>)>>,
             <<<<"b">>, ProcRef(1)>> >>)>>,
        <<<<"a">>, ProcRef(2)>> >>,
     <<>> >>

\* The router as the code reads it: a reference is a procedure while the
\* object's _kind says so (isProcedure reads val._kind).
RECURSIVE view(_, _)
view(defs, node) ==
  IF node.kind = "ref"
  THEN [kind |-> defs[node.def]._kind, def |-> node.def, record |-> <<>>]
  ELSE [node EXCEPT !.record =
          [j \in 1..Len(node.record) |->
             <<node.record[j][1], view(defs, node.record[j][2])>>]]

\* Object.isFrozen: createRouter freezes the record, the _def object and the
\* router object (router.ts:20-23); make() freezes nothing.
isFrozen(object) == object \in {"record", "def", "router"}

\* obj[field] = val
assignField(obj, object, field, val) ==
  IF isFrozen(object) THEN obj ELSE [obj EXCEPT ![field] = val]

\* record[key] = val
assignEntry(record, object, key, val) ==
  IF isFrozen(object) THEN record ELSE MapSet(record, key, val)

RouterWorld(shape) ==
  [shape |-> shape, record |-> RouterRecords[shape], defs |-> InitialDefs,
   pristine |-> TRUE, op |-> "none", path |-> <<>>, result |-> {}, n |-> 0]

IdleRouterWorld == RouterWorld(1)

\* --------------------------------------------------- user-supplied code
\* Values user code throws: a typed RPC error, a typed error with a code
\* outside the table, a foreign Error, and a thrown non-error value.
ThrowVals ==
  { createRPCError("RPC_FORBIDDEN", "denied", Undef),
    createRPCError("RPC_CUSTOM", "custom", SomeIssues),
    ErrVal("Error", Undef, "boom", Undef),
    ErrVal("primitive", Undef, Undef, Undef) }

\* Errors a middleware returns in { ok: false, error }: an RPCError
\* instance, plain objects as the tests use them, and plain objects with
\* an empty message, a missing field or a non-string code.
MwErrors ==
  { createRPCError("RPC_UNAUTHORIZED", "", Undef),
    ErrVal("object", "RPC_UNAUTHORIZED", "Unauthorized", EmptyIssues),
    ErrVal("object", "RPC_CUSTOM", "custom", SomeIssues),
    ErrVal("object", "RPC_FORBIDDEN", "", Undef),
    ErrVal("object", NumCode, Undef, Undef) }

\* Envelopes a resolver returns.
ResolverEnvs ==
  { rpcOk(Data("ok", FALSE), "RPC_OK"),
    rpcOk(Data("bad", FALSE), "RPC_CREATED"),
    rpcOk(Data("big", FALSE), "RPC_OK"),
    rpcOk(Data("ok", FALSE), "RPC_NOT_FOUND"),
    rpcErr("RPC_CONFLICT", "conflict", Undef),
    rpcErr("RPC_CUSTOM", Undef, Undef) }

ResolverOutcomes == {Ret(e) : e \in ResolverEnvs} \cup {Thrown(v) : v \in ThrowVals}

\* Exceptions that were not created by createRPCError: a plain Error, and
\* an Error that carries a string `code` of its own, as Node's system errors
\* do.
ForeignErrors ==
  { ErrVal("Error", Undef, "boom", Undef),
    ErrVal("Error", "ENOENT", "no such file", Undef) }

HttpResolverOutcomes == ResolverOutcomes \cup {Thrown(v) : v \in ForeignErrors}

\* Raw inputs handed to _call.
RawInputs == {Data("ok", FALSE), Data("bad", FALSE), Data(Undef, FALSE)}

\* --------------------------------------------------- middleware engine
\* Largest number of next() invocations one middleware activation makes.
MaxNextCalls == 2

\* A guard that lets the immediately repeated next() through.
nextGuardFails_strict(i, idx) == i < idx

\* dispatch, line 28: the guard that rejects a repeated next().
nextGuardFails(i, idx) == i <= idx

NextTwiceError == ErrVal("Error", Undef, NextTwiceMsg, Undef)

\* The variant that runs the middleware's error through toError.
middlewareErrorEnvelope_viaToErr(e) == rpcToErr(e)[1]

\* dispatch, lines 48-57: the envelope for a middleware's { ok: false, error }.
middlewareErrorEnvelope(e) ==
  IF isRPCError(e) THEN rpcErr(e.code, e.message, e.issues)
  ELSE LET code == IF Truthy(e.code) /\ IsString(e.code) THEN e.code ELSE INTERNAL
           message == IF Truthy(e.message) THEN e.message ELSE "Middleware error"
           issues == IF e.issues = Undef THEN EmptyIssues ELSE e.issues
       IN  rpcErr(code, message, issues)

\* dispatch, lines 44-57: what dispatch(i) returns for the middleware's result.
MwOk(env) == [ok |-> TRUE, data |-> env, error |-> NoExc]
MwErr(e) == [ok |-> FALSE, data |-> NoEnvelope, error |-> e]
NoRet == [ok |-> TRUE, data |-> NoEnvelope, error |-> NoExc]
dispatchResult(r) == IF r.ok THEN r.data ELSE middlewareErrorEnvelope(r.error)

\* One activation of dispatch(i): stage i < n runs middlewares[i], stage n
\* runs the resolver.
\*   pc      idle | run | await | post | caught | done
\*   ctx     the context the stage received
\*   got     what the awaited next() settled with
\*   ret     the MiddlewareResult the middleware returned
\*   out     how dispatch(i) settled
\*   nexts   one entry per next() invocation: "started", or the message of
\*           the error the invocation failed with
\*   starts  how many times the stage was started
\* The argument of next(): no options (or options without a context), or
\* options that carry a context.
NoOpts == [has |-> FALSE, ctx |-> <<>>]
WithCtx(ctx) == [has |-> TRUE, ctx |-> ctx]

IdleStage ==
  [pc |-> "idle", ctx |-> <<>>, got |-> None, ret |-> NoRet, out |-> None,
   nexts |-> <<>>, starts |-> 0, opts |-> NoOpts]

Running == {"run", "post", "caught"}

\* One invocation of run(ctx, resolver), of _call or of fetchRequestHandler.
IdleTask ==
  [entry |-> "none", rawInput |-> Data(Undef, FALSE), input |-> Data(Undef, FALSE),
   idx |-> -1, st |-> [i \in 0..MaxMw |-> IdleStage], trace |-> <<>>,
   resolverRuns |-> 0, resolved |-> None, reached |-> None, res |-> None,
   hpc |-> "idle", req |-> NoReq, fmt |-> "json", ctx |-> <<>>,
   envType |-> Undef, looked |-> "none", caught |-> None,
   responses |-> 0, response |-> NoResponse, rejected |-> FALSE,
   composed |-> 0, contexts |-> 0, indexed |-> FALSE]

CallIds == {1, 2}

VARIABLES
  state,      \* the builder's ProcedureState
  cfg,        \* history of the builder: which transitions were applied
  proc,       \* the procedure definition produced by query()/mutation()
  task,       \* the invocations in flight, by id
  ROUTER_INDEX, \* the index cached for the router that is looked up
  rw,         \* a router, the procedure objects it holds, and the last lookup
  fx,         \* a value handed to rpcToErr, and what it returned
  derived,    \* the state of the builder the last side transition returned
  client,     \* a low-level client, the call made on it and the fetch it issued
  getUrl      \* the query of a GET request, and the envelope parsed from it

vars == <<state, cfg, proc, task, ROUTER_INDEX, rw, fx, derived, client, getUrl>>

Mws == proc.run
NMw == Len(Mws)

\* One counter that every invocation of run() reads.
runIdx_shared(c) == task[1].idx

\* composeMiddlewares, line 25: `let idx = -1` stands inside the function
\* that is returned, so every invocation of run() has a counter of its own.
runIdx(c) == task[c].idx

\* Invocation c, with the counter its dispatch closure reads.
Invocation(c) == [task[c] EXCEPT !.idx = runIdx(c)]

\* cfg.uses: middlewares in the order use() was called; cfg.input/output:
\* input(schema)/output(schema) was applied; cfg.mode: the mode last set.
Init ==
  /\ state = InitialState
  /\ cfg = [uses |-> <<>>, input |-> FALSE, output |-> FALSE, mode |-> "on"]
  /\ proc = NoProc
  /\ task = [c \in CallIds |-> IdleTask]
  /\ ROUTER_INDEX = NoIndex
  /\ rw = IdleRouterWorld
  /\ fx = IdleFx
  /\ derived = InitialState
  /\ client = IdleClient
  /\ getUrl = IdleGet

Use(limit) ==
  /\ ~proc.made
  /\ Len(state.middlewares) < limit
  /\ LET mw == Len(cfg.uses) + 1 IN
       /\ state' = use(state, mw)
       /\ cfg' = [cfg EXCEPT !.uses = Append(@, mw)]
  /\ UNCHANGED <<proc, task, ROUTER_INDEX, rw, fx, derived, client, getUrl>>

Input ==
  /\ ~proc.made
  /\ state' = input(state, "S")
  /\ cfg' = [cfg EXCEPT !.input = TRUE]
  /\ UNCHANGED <<proc, task, ROUTER_INDEX, rw, fx, derived, client, getUrl>>

Output ==
  /\ ~proc.made
  /\ state' = output(state, "S")
  /\ cfg' = [cfg EXCEPT !.output = TRUE]
  /\ UNCHANGED <<proc, task, ROUTER_INDEX, rw, fx, derived, client, getUrl>>

Validation ==
  /\ ~proc.made
  /\ \E value \in {"on", "off"} :
       /\ state' = validation(state, value)
       /\ cfg' = [cfg EXCEPT !.mode = value]
  /\ UNCHANGED <<proc, task, ROUTER_INDEX, rw, fx, derived, client, getUrl>>

Query ==
  /\ ~proc.made
  /\ proc' = make("query", state)
  /\ UNCHANGED <<state, cfg, task, ROUTER_INDEX, rw, fx, derived, client, getUrl>>

Mutation ==
  /\ ~proc.made
  /\ proc' = make("mutation", state)
  /\ UNCHANGED <<state, cfg, task, ROUTER_INDEX, rw, fx, derived, client, getUrl>>

\* A transition that updates the state of the builder it is called on.
receiverAfter_aliased(s, result) == result

\* use/input/output/validation, lines 54-76 and 119-121: each builds a new
\* state object for createProcedure and assigns nothing to `state`; the
\* builder it was called on keeps its state.
receiverAfter(s, result) == s

\* The middleware a side transition attaches.
OtherMw == 0

\* A transition is applied to the builder in hand and its result is kept
\* aside: the program goes on with the builder it called, before or after
\* it built the procedure.
Branch ==
  /\ \E result \in {use(state, OtherMw), input(state, "S"), output(state, "S"),
                     validation(state, "on"), validation(state, "off")} :
       /\ derived' = result
       /\ state' = receiverAfter(state, result)
  /\ UNCHANGED <<cfg, proc, task, ROUTER_INDEX, rw, fx, client, getUrl>>

\* ------------------------------------------------ the middleware chain
\* middlewares[i]
MwId(i) == Mws[i + 1]

\* dispatch(i, nextCtx) past its guard (lines 29-34): idx = i, and the
\* stage starts; a middleware runs its part before next() at once.
startStage(k, i, nextCtx) ==
  [k EXCEPT !.idx = i,
            !.st[i] = [IdleStage EXCEPT !.pc = "run", !.ctx = nextCtx,
                                        !.starts = k.st[i].starts + 1],
            !.trace = IF i < NMw THEN Append(@, <<"pre", MwId(i)>>) ELSE @]

\* dispatch(i, nextCtx), lines 27-29.
dispatch(k, i, nextCtx) ==
  IF nextGuardFails(i, k.idx)
  THEN [threw |-> TRUE, k |-> k]
  ELSE [threw |-> FALSE, k |-> startStage(k, i, nextCtx)]

\* run() with a try/catch of its own.
runSettle_catch(o) == IF o.kind = "exc" THEN Ret(rpcToErr(o.exc)[1]) ELSE o

\* composeMiddlewares, line 60: run() settles as dispatch(0, ctx) does.
runSettle(o) == o

\* _call without its try/catch.
callSettle_rethrow(o) == o

\* _call, lines 109-112: the try/catch around the pre-composed chain.
callSettle(o) == IF o.kind = "exc" THEN Ret(rpcToErr(o.exc)[1]) ELSE o

\* The invocation returns to its caller.
settle(k, o) ==
  [k EXCEPT !.reached = o,
            !.res = IF k.entry = "run" THEN runSettle(o) ELSE callSettle(o),
            !.hpc = IF k.entry = "http" THEN "respond" ELSE @,
            !.trace = Append(@, <<"return", 0>>)]

\* A chain that answers the caller as soon as a stage throws, without
\* resuming the middlewares that await it.
finishStage_eager(k, i, o) ==
  LET k1 == [k EXCEPT !.st[i].pc = "done", !.st[i].out = o] IN
  IF i = 0 \/ o.kind = "exc" THEN settle(k1, o)
  ELSE IF k1.st[i - 1].pc = "await"
  THEN [k1 EXCEPT !.st[i - 1].pc = "post", !.st[i - 1].got = o,
                  !.trace = Append(@, <<"post", MwId(i - 1)>>)]
  ELSE k1

\* dispatch(i) settles with o.  The caller of next() that awaits it resumes
\* (`const data = await dispatch(i + 1, updatedCtx)`, line 38).
finishStage(k, i, o) ==
  LET k1 == [k EXCEPT !.st[i].pc = "done", !.st[i].out = o] IN
  IF i = 0 THEN settle(k1, o)
  ELSE IF k1.st[i - 1].pc = "await"
  THEN [k1 EXCEPT !.st[i - 1].pc = IF o.kind = "env" THEN "post" ELSE "caught",
                  !.st[i - 1].got = o,
                  !.trace = Append(@, <<"post", MwId(i - 1)>>)]
  ELSE k1

\* run(ctx, resolver), line 60: dispatch(0, ctx); an exception of its guard
\* rejects the promise run() returns.
runStart(k, ctx) ==
  LET d == dispatch(k, 0, ctx) IN
  IF d.threw THEN settle(d.k, Thrown(NextTwiceError)) ELSE d.k

\* _call that composes the chain again before it runs it.
callCompose_again(n) == n + 1

\* _call, lines 91-113, calls run, the chain make composed (line 84), and
\* composes nothing itself: the count of compositions stays as it is.
callCompose(n) == n

\* A _call that goes on with an input its schema rejected.
inputRejected_never(validate, p) == FALSE

\* Lines 95-97: `await parseInput(...)` throws past the chain into the catch
\* block when validation applies and the schema rejects the input.
inputRejected(validate, p) == validate /\ p.threw

\* _call, lines 92-109: input validation, then the chain.
callStart(k, entry, ctx, raw) ==
  LET S == proc.state
      validate == S.inputSchema # Undef /\ S.validation = "on"
      p == parseInput(S.inputSchema, raw)
      k0 == [k EXCEPT !.entry = entry, !.rawInput = raw,
                      !.composed = callCompose(@)]
  IN  IF inputRejected(validate, p) THEN settle(k0, Thrown(p.exc))
      ELSE runStart([k0 EXCEPT !.input = IF validate THEN p.value ELSE raw], ctx)

\* resolverWithInput, lines 101-106; o is how the user resolver settled.
resolverWithInput(S, o) ==
  IF o.kind = "exc" THEN o
  ELSE IF S.outputSchema = Undef \/ ~o.env.ok THEN o
  ELSE IF S.validation = "on"
       THEN LET p == parseOutput(S.outputSchema, o.env.data) IN
            IF p.threw THEN Thrown(p.exc)
            ELSE Ret([o.env EXCEPT !.data = p.value])
       ELSE o

\* An envelope a middleware makes up itself (a cache hit, say).
MwOwnEnv == rpcOk(Data("mw", FALSE), "RPC_OK")

\* composeMiddlewares(mws)(ctx, resolver) used directly, as the tests of the
\* engine do: no schema is involved.
StartRun(c) ==
  /\ proc.made /\ task[c].entry = "none"
  /\ ~cfg.input /\ ~cfg.output /\ cfg.mode = "on"
  /\ task' = [task EXCEPT ![c] =
                runStart([Invocation(c) EXCEPT !.entry = "run"], <<>>)]
  /\ UNCHANGED <<state, cfg, proc, ROUTER_INDEX, rw, fx, derived, client, getUrl>>

\* procedure._call({ ctx, rawInput }) invoked directly.
StartCall(c, Raws) ==
  /\ proc.made /\ task[c].entry = "none"
  /\ \E raw \in Raws :
       task' = [task EXCEPT ![c] = callStart(Invocation(c), "call", <<>>, raw)]
  /\ UNCHANGED <<state, cfg, proc, ROUTER_INDEX, rw, fx, derived, client, getUrl>>

\* The context a caller hands to call c: its own.
CallerCtx(c) == <<-c>>

\* procedure._call({ ctx, rawInput }) of call c, while other calls of the
\* same procedure may be in flight.
StartConcurrent(c, Raws) ==
  /\ proc.made /\ task[c].entry = "none"
  /\ \E raw \in Raws :
       task' = [task EXCEPT ![c] = callStart(Invocation(c), "call", CallerCtx(c), raw)]
  /\ UNCHANGED <<state, cfg, proc, ROUTER_INDEX, rw, fx, derived, client, getUrl>>

\* next() that hands on the stage's own context whatever it is passed.
updatedCtx_own(opts, nextCtx) == nextCtx

\* Line 37: `opts?.ctx ?? nextCtx`.
updatedCtx(opts, nextCtx) == IF opts.has THEN opts.ctx ELSE nextCtx

\* Middleware i invokes next(), with or without a context, and awaits the
\* promise (lines 36-41).  With `twice` it invokes next() a second time
\* before awaiting the first promise, while the first call is pending:
\*   const p = next(); const q = next(); q.catch(() => {}); await p
MwNext(c, i) ==
  LET k == Invocation(c)
      s == k.st[i]
  IN
  /\ i < NMw /\ s.pc \in Running /\ Len(s.nexts) < MaxNextCalls
  /\ \E withCtx \in BOOLEAN, twice \in BOOLEAN :
       LET opts == IF withCtx THEN WithCtx(Append(s.ctx, MwId(i))) ELSE NoOpts
           d == dispatch(k, i + 1, updatedCtx(opts, s.ctx))
           k1 == [d.k EXCEPT !.st[i].nexts = Append(@, "started"),
                             !.st[i].pc = "await", !.st[i].opts = opts]
           d2 == dispatch(k1, i + 1, updatedCtx(opts, s.ctx))
       IN /\ twice => Len(s.nexts) + 1 < MaxNextCalls
          /\ task' = [task EXCEPT ![c] =
               IF d.threw
               THEN [k EXCEPT !.st[i].nexts = Append(@, NextTwiceError.message),
                              !.st[i].pc = "caught",
                              !.st[i].got = Thrown(NextTwiceError)]
               ELSE IF ~twice THEN k1
               ELSE IF d2.threw
               THEN [k1 EXCEPT !.st[i].nexts = Append(@, NextTwiceError.message)]
               ELSE [d2.k EXCEPT !.st[i].nexts = Append(@, "started")]]
  /\ UNCHANGED <<state, cfg, proc, ROUTER_INDEX, rw, fx, derived, client, getUrl>>

\* Middleware i returns a MiddlewareResult: what next() gave it, an envelope
\* of its own, or { ok: false, error } (lines 34, 44-57).
MwReturn(c, i, Errs) ==
  LET k == task[c]
      s == k.st[i]
  IN
  /\ i < NMw /\ s.pc \in Running
  /\ \E r \in {MwOk(IF s.pc = "post" THEN s.got.env ELSE MwOwnEnv)}
                \cup {MwErr(e) : e \in Errs} :
       task' = [task EXCEPT ![c] =
                  finishStage([k EXCEPT !.st[i].ret = r], i, Ret(dispatchResult(r)))]
  /\ UNCHANGED <<state, cfg, proc, ROUTER_INDEX, rw, fx, derived, client, getUrl>>

\* Middleware i throws: a value of its own, or the exception its awaited
\* next() rejected with (which propagates after the middleware's cleanup).
MwThrow(c, i, Vals) ==
  LET k == task[c]
      s == k.st[i]
  IN
  /\ i < NMw /\ s.pc \in Running
  /\ \E v \in (IF s.pc = "caught" THEN {s.got.exc} ELSE Vals) :
       task' = [task EXCEPT ![c] = finishStage(k, i, Thrown(v))]
  /\ UNCHANGED <<state, cfg, proc, ROUTER_INDEX, rw, fx, derived, client, getUrl>>

\* Stage n: `if (!mw) return resolver(nextCtx)` (line 32).  Under run() the
\* resolver is the caller's; under _call it is resolverWithInput.
ResolverRun(c, Outs) ==
  LET k == task[c] IN
  /\ k.entry # "none" /\ k.st[NMw].pc = "run"
  /\ \E o \in Outs :
       LET k1 == [k EXCEPT !.resolverRuns = @ + 1, !.resolved = o,
                           !.trace = Append(@, <<"resolver", 0>>)]
           out == IF k.entry = "run" THEN o ELSE resolverWithInput(proc.state, o)
       IN task' = [task EXCEPT ![c] = finishStage(k1, NMw, out)]
  /\ UNCHANGED <<state, cfg, proc, ROUTER_INDEX, rw, fx, derived, client, getUrl>>

\* ------------------------------------------------------ fetchRequestHandler
\* The application's router: procedure `a`, and sub-router `s` holding
\* procedure `b`; both names are bound to the procedure under construction.
appRouter ==
  createRouter(<< <<<<"a">>, ProcNode(proc)>>,
                  <<<<"s">>, RouterNode(<< <<<<"b">>, ProcNode(proc)>> >>)>> >>)

JsonBody(type, v) == Body("record", type, Data(v, FALSE))

\* The requests the handler is driven with.
Requests ==
  { Request("POST", Endpoint \o <<"/", "a">>, <<>>, Undef, "application/json",
            JsonBody("query", "ok")),
    Request("POST", Endpoint \o <<"/", "a">>, <<>>, Undef, "application/json",
            JsonBody("mutation", "bad")),
    Request("POST", Endpoint \o <<"/", "s", ".", "b">>, <<>>, CBOR_CONTENT_TYPE,
            CBOR_CONTENT_TYPE, JsonBody("query", "ok")),
    Request("GET", Endpoint \o <<"/", "a">>, <<>>, Undef, Undef, NoBody),
    Request("GET", Endpoint \o <<"/", "a">>,
            << <<"type", "mutation">>, <<"input", "{ok}">> >>, Undef, Undef, NoBody),
    Request("PUT", Endpoint \o <<"/", "a">>, <<>>, "text/html, Application/CBOR;q=0.9",
            Undef, NoBody),
    Request("POST", <<"/", "x", "/", "a">>, <<>>, "application/json",
            "Application/CBOR ; charset=binary", JsonBody("query", "ok")),
    Request("POST", Endpoint \o <<"/", "z">>, <<>>, "*/*", "application/cbor-seq",
            JsonBody("query", "ok")),
    Request("POST", Endpoint \o <<"/", "s">>, <<>>, Undef, "application/json",
            JsonBody("query", "ok")),
    Request("POST", Endpoint \o <<"/">>, <<>>, Undef, "application/json",
            JsonBody("query", "ok")),
    Request("POST", Endpoint \o <<"/", "a">>, <<>>, Undef, "application/json",
            Body("scalar", Undef, Data(Undef, FALSE))),
    Request("POST", Endpoint \o <<"/", "a">>, <<>>, Undef, CBOR_CONTENT_TYPE,
            Body("garbage", Undef, Data(Undef, FALSE))),
    Request("POST", Endpoint \o <<"/", "a">>, <<>>, Undef, "application/json",
            JsonBody("subscription", "ok")),
    Request("POST", Endpoint \o <<"/", "a">>, <<>>, Undef, "application/json",
            Body("array", Undef, Data(Undef, FALSE))),
    Request("POST", Endpoint \o <<"/", "a">>, <<>>, Undef, Undef,
            Body("garbage", Undef, Data(Undef, FALSE))),
    Request("POST", Endpoint \o <<"/", "a">>, <<>>, Undef,
            "Application/CBOR ; charset=binary",
            Body("scalar", Undef, Data(Undef, FALSE))),
    Request("POST", Endpoint \o <<"/", "a">>, <<>>, Undef, "application/cbor-seq",
            Body("garbage", Undef, Data(Undef, FALSE))),
    Request("POST", Endpoint \o <<"a">>, <<>>, Undef, "application/json",
            JsonBody("query", "ok")) }

\* What createContext may throw.
ContextThrowVals ==
  { createRPCError("RPC_UNAUTHORIZED", "no session", Undef),
    ErrVal("Error", Undef, "db down", Undef) }

\* What JSON.stringify throws on a BigInt.
SerializeError == ErrVal("Error", Undef, "Do not know how to serialize a BigInt", Undef)

Respond(k, response) ==
  [k EXCEPT !.hpc = "done", !.responses = @ + 1, !.response = response]

\* The catch block, lines 78-81 - as it would be if it rethrew.
fetchCatch_rethrow(k, e) ==
  [k EXCEPT !.hpc = "done", !.caught = Thrown(e), !.rejected = TRUE]

\* The catch block, lines 78-81.
fetchCatch(k, e) ==
  LET r == rpcToErr(e) IN
  Respond([k EXCEPT !.caught = Thrown(e)], serializeResponse(r[1], {r[2]}, k.fmt))

\* A handler that lets every method through.
methodSupported_any(method) == TRUE

\* Line 53: `req.method !== 'POST' && req.method !== 'GET'` rejects.
methodSupported(method) == method \in {"POST", "GET"}

\* Lines 42-55: the response format, then the prefix and method checks.
HttpStart(c, Reqs) ==
  /\ proc.made /\ task[c].entry = "none"
  /\ \E req \in Reqs :
       LET k == [task[c] EXCEPT !.entry = "http", !.req = req,
                                !.fmt = resolveResponseFormat(req),
                                !.indexed = ROUTER_INDEX.built]
       IN  task' = [task EXCEPT ![c] =
             IF ~startsWith(req.pathname, Endpoint)
             THEN fetchCatch(k, createRPCError("RPC_NOT_FOUND", "Request not found", Undef))
             ELSE IF ~methodSupported(req.method)
             THEN fetchCatch(k, createRPCError("RPC_BAD_REQUEST",
                                  "Only GET and POST are supported", Undef))
             ELSE [k EXCEPT !.hpc = "ctx"]]
  /\ UNCHANGED <<state, cfg, proc, ROUTER_INDEX, rw, fx, derived, client, getUrl>>

\* Line 57: `await createContext({ req })` returns a context or throws.
HttpContext(c) ==
  /\ task[c].hpc = "ctx"
  /\ LET k == [task[c] EXCEPT !.contexts = @ + 1] IN
     \/ task' = [task EXCEPT ![c] = [k EXCEPT !.hpc = "env", !.ctx = <<"ctx">>]]
     \/ \E e \in ContextThrowVals : task' = [task EXCEPT ![c] = fetchCatch(k, e)]
  /\ UNCHANGED <<state, cfg, proc, ROUTER_INDEX, rw, fx, derived, client, getUrl>>

\* A handler that calls the procedure with a context of its own making.
callCtx_empty(k) == <<>>

\* Line 76: `proc._call({ ctx, rawInput })`, ctx being what createContext
\* returned at line 57.
callCtx(k) == k.ctx

\* Lines 58-76: the path, the envelope, the type check, the lookup, the
\* type-mismatch check, and the start of proc._call.
HttpEnvelope(c) ==
  /\ task[c].hpc = "env"
  /\ LET k == Invocation(c)
         req == k.req
         path == parsePath(req.pathname, Len(Endpoint))
         envelope == IF req.method = "GET" THEN parseGetEnvelope(req.query)
                     ELSE parsePostEnvelope(req.contentType, req.body)
         index == getRouterIndex(ROUTER_INDEX, appRouter)
         found == getProcedureAtPath(index, path)
         k1 == [k EXCEPT !.envType = envelope.type]
     IN  IF envelope.threw
         THEN /\ task' = [task EXCEPT ![c] = fetchCatch(k, envelope.exc)]
              /\ UNCHANGED ROUTER_INDEX
         ELSE IF envelope.type \notin {"query", "mutation"}
         THEN /\ task' = [task EXCEPT ![c] =
                   fetchCatch(k1, createRPCError("RPC_BAD_REQUEST",
                                     "Missing or invalid type", Undef))]
              /\ UNCHANGED ROUTER_INDEX
         ELSE /\ ROUTER_INDEX' = index
              /\ IF found = {}
                 THEN task' = [task EXCEPT ![c] =
                        fetchCatch([k1 EXCEPT !.looked = "null"], procedureNotFound)]
                 ELSE LET p == CHOOSE d \in found : TRUE
                          k2 == [k1 EXCEPT !.looked = "found"]
                      IN  IF typeMismatch(p.type, envelope.type)
                          THEN task' = [task EXCEPT ![c] =
                                 fetchCatch(k2, createRPCError("RPC_BAD_REQUEST",
                                                  "Procedure type mismatch", Undef))]
                          ELSE task' = [task EXCEPT ![c] =
                                 callStart([k2 EXCEPT !.hpc = "call"], "http",
                                           callCtx(k), envelope.rawInput)]
  /\ UNCHANGED <<state, cfg, proc, rw, fx, derived, client, getUrl>>

\* Line 77: the envelope _call resolved with is serialized under
\* RPC_CODES[data.code]; a failure to serialize is caught.
HttpRespond(c) ==
  /\ task[c].hpc = "respond"
  /\ LET k == task[c]
         data == k.res.env
     IN  task' = [task EXCEPT ![c] =
           IF serializeThrows(data, k.fmt) THEN fetchCatch(k, SerializeError)
           ELSE Respond(k, serializeResponse(data, CodeLookup(data.code), k.fmt))]
  /\ UNCHANGED <<state, cfg, proc, ROUTER_INDEX, rw, fx, derived, client, getUrl>>

\* ------------------------------------------------------ low-level client
InitClient ==
  /\ state = InitialState
  /\ cfg = [uses |-> <<>>, input |-> FALSE, output |-> FALSE, mode |-> "on"]
  /\ proc = NoProc
  /\ task = [c \in CallIds |-> IdleTask]
  /\ ROUTER_INDEX = NoIndex
  /\ rw = IdleRouterWorld
  /\ fx = IdleFx
  /\ derived = InitialState
  /\ \E opts \in ClientOptions : client = [IdleClient EXCEPT !.opts = opts]
  /\ getUrl = IdleGet

\* client.query(path, input)
ClientQuery ==
  /\ ~client.called
  /\ \E path \in ClientPaths, inp \in ClientInputs :
       client' = [client EXCEPT !.wrapper = "query", !.path = path, !.input = inp,
                                !.called = TRUE,
                                !.fetched = query(client.opts, path, inp)]
  /\ UNCHANGED <<state, cfg, proc, task, ROUTER_INDEX, rw, fx, derived, getUrl>>

\* client.mutation(path, input)
ClientMutation ==
  /\ ~client.called
  /\ \E path \in ClientPaths, inp \in ClientInputs :
       client' = [client EXCEPT !.wrapper = "mutation", !.path = path, !.input = inp,
                                !.called = TRUE,
                                !.fetched = mutation(client.opts, path, inp)]
  /\ UNCHANGED <<state, cfg, proc, task, ROUTER_INDEX, rw, fx, derived, getUrl>>

\* ------------------------------------------------------------- rpcToErr
InitToError ==
  /\ state = InitialState
  /\ cfg = [uses |-> <<>>, input |-> FALSE, output |-> FALSE, mode |-> "on"]
  /\ proc = NoProc
  /\ task = [c \in CallIds |-> IdleTask]
  /\ ROUTER_INDEX = NoIndex
  /\ rw = IdleRouterWorld
  /\ \E v \in ToErrorInputs : fx = [IdleFx EXCEPT !.arg = v]
  /\ derived = InitialState
  /\ client = IdleClient
  /\ getUrl = IdleGet

ApplyToError ==
  /\ ~fx.applied
  /\ fx' = [fx EXCEPT !.applied = TRUE, !.out = rpcToErr(fx.arg)]
  /\ UNCHANGED <<state, cfg, proc, task, ROUTER_INDEX, rw, derived, client, getUrl>>

\* ----------------------------------------------------------- router use
MaxLookups == 2

\* The router object: createRouter over the record, as the code reads it.
liveRouter == view(rw.defs, createRouter(rw.record))

\* What a lookup resolves to: the definition object with the type and the
\* entry point it has at that moment.
Resolved(defs, found) ==
  {[id |-> d, type |-> defs[d]._type, call |-> defs[d]._call] : d \in found}

LookupPaths ==
  { <<<<"a">>>>, <<<<"s">>, <<"b">>>>, <<<<"s">>, <<"t">>, <<"c">>>>,
    <<<<"s">>>>, <<<<"b">>>>, <<<<"z">>>>, <<<<"s">>, <<"t">>>>,
    <<<<"a">>, <<>>>>, <<>> }

InitRouter ==
  /\ state = InitialState
  /\ cfg = [uses |-> <<>>, input |-> FALSE, output |-> FALSE, mode |-> "on"]
  /\ proc = NoProc
  /\ task = [c \in CallIds |-> IdleTask]
  /\ ROUTER_INDEX = NoIndex
  /\ \E shape \in 1..Len(RouterRecords) : rw = RouterWorld(shape)
  /\ fx = IdleFx
  /\ derived = InitialState
  /\ client = IdleClient
  /\ getUrl = IdleGet

\* getProcedureAtPath(router, path)
Lookup(Paths) ==
  /\ \E path \in Paths :
       LET index == getRouterIndex(ROUTER_INDEX, liveRouter)
           found == getProcedureAtPath(index, path)
       IN  /\ ROUTER_INDEX' = index
           /\ rw' = [rw EXCEPT !.op = "lookup", !.path = path,
                               !.result = Resolved(rw.defs, found),
                               !.n = IF @ < MaxLookups THEN @ + 1 ELSE @]
  /\ UNCHANGED <<state, cfg, proc, task, fx, derived, client, getUrl>>

\* router._def.record[key] = a procedure
SetRecord ==
  /\ \E key \in {<<"a">>, <<"n">>}, id \in DefIds :
       rw' = [rw EXCEPT !.op = "setRecord",
                        !.record = assignEntry(@, "record", key, ProcRef(id))]
  /\ UNCHANGED <<state, cfg, proc, task, ROUTER_INDEX, fx, derived, client, getUrl>>

\* A holder of a procedure definition assigns to one of its fields.
SetDef ==
  /\ \E id \in DefIds :
     \E w \in {<<"_kind", "other">>, <<"_type", "query">>, <<"_type", "mutation">>,
               <<"_call", "other">>} :
       /\ rw.defs[id][w[1]] # w[2]
       /\ rw' = [rw EXCEPT !.op = "setDef",
                           !.defs[id] = assignField(@, "procedure", w[1], w[2]),
                           !.pristine = (assignField(rw.defs[id], "procedure", w[1], w[2])
                                           = rw.defs[id]) /\ @]
  /\ UNCHANGED <<state, cfg, proc, task, ROUTER_INDEX, fx, derived, client, getUrl>>

\* ------------------------------------------------------ specifications
\* The middleware engine on its own: procedures built with use() only,
\* invoked through run(ctx, resolver) and through _call, with every
\* behaviour of the middlewares.
\* The engine is driven with an RPCError instance, a plain object with all
\* fields and a plain object with a non-string code as middleware errors,
\* and with a typed and a foreign exception.
EngineMwErrors ==
  { createRPCError("RPC_UNAUTHORIZED", "", Undef),
    ErrVal("object", "RPC_CUSTOM", "custom", SomeIssues),
    ErrVal("object", NumCode, Undef, Undef) }
EngineThrowVals ==
  { createRPCError("RPC_FORBIDDEN", "denied", Undef),
    ErrVal("Error", Undef, "boom", Undef) }
EngineOutcomes ==
  {Ret(rpcOk(Data("ok", FALSE), "RPC_OK")), Ret(rpcErr("RPC_CONFLICT", "conflict", Undef))}
    \cup {Thrown(v) : v \in EngineThrowVals}

NextEngine ==
  \/ Use(MaxMw) \/ Query
  \/ StartRun(1) \/ StartCall(1, {Data(Undef, FALSE)})
  \/ \E i \in 0..(MaxMw - 1) :
       MwNext(1, i) \/ MwReturn(1, i, EngineMwErrors) \/ MwThrow(1, i, EngineThrowVals)
  \/ ResolverRun(1, EngineOutcomes)

SpecEngine == Init /\ [][NextEngine]_vars

\* The procedure builder and _call: every order of the builder's
\* transitions, every raw input, every outcome of the resolver.
MaxMwProc == 1
ProcMwErrors == {ErrVal("object", "RPC_UNAUTHORIZED", "Unauthorized", EmptyIssues)}
ProcThrowVals == {ErrVal("Error", Undef, "boom", Undef)}

NextProc ==
  \/ Use(MaxMwProc) \/ Input \/ Output \/ Validation \/ Query \/ Mutation
  \/ StartCall(1, RawInputs)
  \/ \E i \in 0..(MaxMwProc - 1) :
       MwNext(1, i) \/ MwReturn(1, i, ProcMwErrors) \/ MwThrow(1, i, ProcThrowVals)
  \/ ResolverRun(1, ResolverOutcomes)

SpecProc == Init /\ [][NextProc]_vars

MaxMwHttp == 1
HttpMwErrors ==
  { ErrVal("object", "RPC_UNAUTHORIZED", "Unauthorized", EmptyIssues),
    ErrVal("object", "RPC_CUSTOM", "custom", SomeIssues) }
HttpThrowVals ==
  { createRPCError("RPC_FORBIDDEN", "denied", Undef),
    ErrVal("Error", Undef, "boom", Undef) }

\* The HTTP adapter over a procedure with an optional input schema.
Next ==
  \/ Use(MaxMwHttp)
  \/ Input
  \/ Query
  \/ Mutation
  \/ HttpStart(1, Requests)
  \/ HttpContext(1)
  \/ HttpEnvelope(1)
  \/ \E i \in 0..(MaxMwHttp - 1) : MwNext(1, i)
  \/ \E i \in 0..(MaxMwHttp - 1) : MwReturn(1, i, HttpMwErrors)
  \/ \E i \in 0..(MaxMwHttp - 1) : MwThrow(1, i, HttpThrowVals)
  \/ ResolverRun(1, HttpResolverOutcomes)
  \/ HttpRespond(1)
Spec == Init /\ [][Next]_vars


\* The low-level client: every client of ClientOptions makes one call.
NextClient == ClientQuery \/ ClientMutation
SpecClient == InitClient /\ [][NextClient]_vars

\* rpcToErr applied to each of its inputs.
NextToError == ApplyToError
SpecToError == InitToError /\ [][NextToError]_vars

\* Lookups in a router, and writes to the router and to its procedures.
NextRouter == Lookup(LookupPaths) \/ SetRecord \/ SetDef
SpecRouter == InitRouter /\ [][NextRouter]_vars

\* Concurrent calls of one procedure: the calls of CallIds interleave at
\* every await; the resolver returns the input it was given.
MaxMwConc == 1
ConcThrowVals == {ErrVal("Error", Undef, "boom", Undef)}
\* Every call has a raw input of its own (procedure.test.ts:256).
ConcRawInputs(c) == {IF c = 1 THEN Data("ok", FALSE) ELSE Data("bad", FALSE)}
EchoResolver(c) == {Ret(rpcOk(task[c].input, "RPC_OK"))}

NextConc ==
  \/ Use(MaxMwConc) \/ Query
  \/ \E c \in CallIds :
       \/ StartConcurrent(c, ConcRawInputs(c))
       \/ \E i \in 0..(MaxMwConc - 1) :
            MwNext(c, i) \/ MwReturn(c, i, {}) \/ MwThrow(c, i, ConcThrowVals)
       \/ ResolverRun(c, EchoResolver(c))

SpecConc == Init /\ [][NextConc]_vars

\* The builder used as a value: transitions chained, transitions applied
\* on the side, and a call of the procedure built.
MaxMwBuild == 1
BuildRawInputs == {Data("bad", FALSE)}

NextBuilder ==
  \/ Use(MaxMwBuild) \/ Input \/ Validation \/ Query
  \/ Branch
  \/ StartCall(1, BuildRawInputs)
  \/ \E i \in 0..(MaxMwBuild - 1) : MwNext(1, i) \/ MwReturn(1, i, {})
  \/ ResolverRun(1, EchoResolver(1))

SpecBuilder == Init /\ [][NextBuilder]_vars

\* Requests in flight together on one router whose index no one has built
\* yet: the handlers interleave at their awaits.
RaceRequests ==
  { Request("POST", Endpoint \o <<"/", "a">>, <<>>, Undef, "application/json",
            JsonBody("query", "ok")),
    Request("POST", Endpoint \o <<"/", "s", ".", "b">>, <<>>, Undef, "application/json",
            JsonBody("query", "ok")),
    Request("POST", Endpoint \o <<"/", "s">>, <<>>, Undef, "application/json",
            JsonBody("query", "ok")),
    Request("GET", Endpoint \o <<"/", "z">>, <<>>, Undef, Undef, NoBody) }

NextRace ==
  \/ Query
  \/ \E c \in CallIds :
       \/ HttpStart(c, RaceRequests)
       \/ HttpContext(c)
       \/ HttpEnvelope(c)
       \/ ResolverRun(c, EchoResolver(c))
       \/ HttpRespond(c)

SpecRace == Init /\ [][NextRace]_vars

\* The chain under run() with middlewares that call next, with or without a
\* context, or return an envelope of their own.
MaxMwCtx == 2
NextCtx ==
  \/ Use(MaxMwCtx) \/ Query \/ StartRun(1)
  \/ \E i \in 0..(MaxMwCtx - 1) : MwNext(1, i) \/ MwReturn(1, i, {})
  \/ ResolverRun(1, EchoResolver(1))

SpecCtx == Init /\ [][NextCtx]_vars

\* parseGetEnvelope on its own: every query of at most MaxParams parameters.
MaxParams == 2
GetParams ==
  { <<"type", "mutation">>, <<"type", "query">>, <<"input", "{ok}">>,
    <<"input", "raw">>, <<"x", "1">>, <<"x", "2">>, <<"y", "1">> }

RECURSIVE Queries(_)
Queries(n) ==
  IF n = 0 THEN {<<>>}
  ELSE LET shorter == Queries(n - 1) IN
       shorter \cup {Append(q, e) : q \in shorter, e \in GetParams}

InitGet ==
  /\ state = InitialState
  /\ cfg = [uses |-> <<>>, input |-> FALSE, output |-> FALSE, mode |-> "on"]
  /\ proc = NoProc
  /\ task = [c \in CallIds |-> IdleTask]
  /\ ROUTER_INDEX = NoIndex
  /\ rw = IdleRouterWorld
  /\ fx = IdleFx
  /\ derived = InitialState
  /\ client = IdleClient
  /\ \E q \in Queries(MaxParams) : getUrl = [IdleGet EXCEPT !.query = q]

\* parseGetEnvelope(url)
ParseGet ==
  /\ ~getUrl.parsed
  /\ getUrl' = [getUrl EXCEPT !.parsed = TRUE,
                              !.envelope = parseGetEnvelope(getUrl.query)]
  /\ UNCHANGED <<state, cfg, proc, task, ROUTER_INDEX, rw, fx, derived, client>>

NextGet == ParseGet
SpecGet == InitGet /\ [][NextGet]_vars

\* A record that holds a leaf named with a whole dotted path, 'a.b', and a
\* nested chain a -> b with the same dotted path, among other entries, in
\* every order of its keys.
TieEntries ==
  << <<<<"a", ".", "b">>, ProcRef(1)>>,
     <<<<"a">>, createRouter(<< <<<<"b">>, ProcRef(2)>> >>)>>,
     <<<<"c">>, ProcRef(2)>>,
     <<<<"s">>, createRouter(<< <<<<"t">>, ProcRef(1)>> >>)>> >>

TiePaths ==
  { <<<<"a">>, <<"b">>>>, <<<<"a", ".", "b">>>>, <<<<"c">>>>, <<<<"a">>>>,
    <<<<"s">>, <<"t">>>> }

InitTie ==
  /\ state = InitialState
  /\ cfg = [uses |-> <<>>, input |-> FALSE, output |-> FALSE, mode |-> "on"]
  /\ proc = NoProc
  /\ task = [c \in CallIds |-> IdleTask]
  /\ ROUTER_INDEX = NoIndex
  /\ \E order \in Permutations(1..Len(TieEntries)) :
       rw = [IdleRouterWorld EXCEPT
               !.record = [j \in 1..Len(TieEntries) |-> TieEntries[order[j]]]]
  /\ fx = IdleFx
  /\ derived = InitialState
  /\ client = IdleClient
  /\ getUrl = IdleGet

NextTie == Lookup(TiePaths)
SpecTie == InitTie /\ [][NextTie]_vars

\* ------------------------------------------------------------ properties
T1 == task[1]
Last(q) == q[Len(q)]

\* The events of a call whose n middlewares, attached in the order uses,
\* each await next once: before-next parts in order, the resolver, the
\* continuations in reverse order, the return.
ExpectedTrace(uses) ==
  LET n == Len(uses) IN
  [j \in 1..n |-> <<"pre", uses[j]>>] \o <<<<"resolver", 0>>>>
    \o [j \in 1..n |-> <<"post", uses[n + 1 - j]>>] \o <<<<"return", 0>>>>

EveryMwAwaitsNextOnce ==
  /\ T1.st[0].starts = 1
  /\ \A i \in 0..(MaxMw - 1) : i < NMw => T1.st[i].nexts = <<"started">>

\* C1: a returned call in which every middleware awaited next exactly once
\* ran the parts before next in use() order, then the resolver, then the
\* continuations in reverse order, and returned last.
C1_MiddlewareOrder ==
  (T1.res.kind # "none" /\ EveryMwAwaitsNextOnce) => T1.trace = ExpectedTrace(cfg.uses)

C1_Witness ==
  /\ T1.entry = "call" /\ T1.res.kind = "env" /\ EveryMwAwaitsNextOnce
  /\ Len(cfg.uses) = MaxMw
  /\ T1.trace = ExpectedTrace(cfg.uses)

\* C2: within one activation the second and every later invocation of next
\* is rejected with 'next() called multiple times', whether the first call
\* is pending or complete, and no stage is started twice.
C2_SingleNext ==
  \A i \in 0..MaxMw :
    LET s == T1.st[i] IN
    /\ s.starts <= 1
    /\ \A j \in 2..Len(s.nexts) : s.nexts[j] = NextTwiceMsg

\* The second next() was made while the first was pending.
C2_Witness ==
  \E i \in 0..(MaxMw - 1) :
    /\ T1.st[i].pc = "await" /\ T1.st[i].nexts = <<"started", NextTwiceMsg>>
    /\ T1.st[i + 1].pc = "run" /\ T1.st[i + 1].starts = 1

ReturnedErrorWithoutNext(i) ==
  /\ i < NMw /\ T1.st[i].pc = "done" /\ ~T1.st[i].ret.ok /\ T1.st[i].nexts = <<>>

NoLaterStage(i) ==
  /\ \A j \in 0..MaxMw : j > i => T1.st[j].starts = 0
  /\ T1.resolverRuns = 0

\* C3 as stated: a middleware that returns { ok: false, error } without
\* calling next yields an error envelope whose code, message and issues
\* equal the error's, and no later stage runs.
C3_AsStated ==
  \A i \in 0..(MaxMw - 1) :
    ReturnedErrorWithoutNext(i) =>
      LET e == T1.st[i].ret.error
          env == T1.st[i].out.env
      IN /\ ~env.ok /\ env.code = e.code /\ env.error.code = e.code
         /\ env.error.message = e.message /\ env.error.issues = e.issues
         /\ NoLaterStage(i)

\* C3 amended: the code is the error's code when the error is an RPCError
\* instance or the code is a non-empty string (else
\* RPC_INTERNAL_SERVER_ERROR); the message is the error's message when
\* the error is an RPCError instance or the message is non-empty (else
\* 'Middleware error'); the issues are the error's when it has any (else
\* []); no later stage runs; and the envelope is what the call returns when
\* the middleware is the first.
C3_MwErrorEnvelope ==
  \A i \in 0..(MaxMw - 1) :
    ReturnedErrorWithoutNext(i) =>
      LET e == T1.st[i].ret.error
          env == T1.st[i].out.env
      IN /\ T1.st[i].out.kind = "env" /\ ~env.ok
         /\ env.code = env.error.code
         /\ env.code = (IF isRPCError(e) \/ (IsString(e.code) /\ Truthy(e.code))
                        THEN e.code ELSE INTERNAL)
         /\ env.error.message =
              (IF isRPCError(e) \/ Truthy(e.message) THEN e.message
               ELSE "Middleware error")
         /\ env.error.issues = (IF e.issues = Undef THEN EmptyIssues ELSE e.issues)
         /\ NoLaterStage(i)
         /\ (i = 0 => T1.res = Ret(env))

C3_Witness ==
  /\ ReturnedErrorWithoutNext(0) /\ NMw = MaxMw
  /\ T1.st[0].ret.error = ErrVal("object", "RPC_CUSTOM", "custom", SomeIssues)
  /\ T1.res.kind = "env" /\ T1.res.env.code = "RPC_CUSTOM"

\* An order-independent reading of the builder's history: input(schema)
\* (output(schema)) was applied and the mode last set is cfg.mode.
InputWasParsed ==
  \/ T1.input.parsed
  \/ T1.st[0].starts = 0 /\ T1.reached.kind = "exc"
OutputWasParsed ==
  LET o == T1.st[NMw].out IN
  \/ o.kind = "env" /\ o.env.data.parsed
  \/ o.kind = "exc" /\ o.exc.message = "Output validation failed"

\* C4: with input(schema) configured, a call parses its input iff the mode
\* is on; with output(schema) configured, an ok result's data is parsed iff
\* the mode is on; whatever the order of the builder's transitions.
C4_ValidationIffOn ==
  /\ (T1.entry = "call" /\ T1.res.kind # "none" /\ cfg.input)
       => (InputWasParsed <=> cfg.mode = "on")
  /\ (T1.entry = "call" /\ T1.resolved.kind = "env" /\ T1.resolved.env.ok /\ cfg.output)
       => (OutputWasParsed <=> cfg.mode = "on")

\* C5: _call never rejects; an exception that reaches it, from input
\* parsing, a middleware, the resolver or output parsing, is returned as
\* the error envelope toError builds.
C5_CallNeverRejects ==
  (T1.entry = "call") =>
    /\ T1.res.kind # "exc"
    /\ (T1.reached.kind = "exc" => T1.res = Ret(rpcToErr(T1.reached.exc)[1]))
    /\ (T1.st[0].out.kind = "exc" => T1.reached = T1.st[0].out)

\* The exception came from output parsing.
C5_Witness ==
  /\ T1.entry = "call" /\ T1.resolved.kind = "env" /\ T1.resolved.env.ok
  /\ T1.reached.kind = "exc" /\ T1.reached.exc.message = "Output validation failed"
  /\ T1.res.kind = "env" /\ T1.res.env.code = INTERNAL

\* C6 as stated: the function compose returns never rejects; an exception in
\* a stage becomes the error envelope toError builds.
C6_AsStated ==
  (T1.entry = "run") =>
    /\ T1.res.kind # "exc"
    /\ (T1.st[0].out.kind = "exc" => T1.res = Ret(rpcToErr(T1.st[0].out.exc)[1]))

\* C6 amended: the function compose returns rejects with the exception a
\* stage threw (a middleware, a repeated next, the resolver) unless a
\* middleware upstream handled it; it is _call that captures the exception
\* and returns the envelope toError builds.
C6_ComposeRethrows ==
  /\ (T1.entry = "run" /\ T1.st[0].out.kind # "none") => T1.res = T1.st[0].out
  /\ (T1.entry = "call" /\ T1.st[0].out.kind = "exc")
       => T1.res = Ret(rpcToErr(T1.st[0].out.exc)[1])

C6_Witness ==
  /\ T1.entry = "run" /\ T1.res = Thrown(NextTwiceError)
  /\ T1.st[0].nexts = <<"started", NextTwiceMsg>>

\* ----------------------------------------------------------- HTTP claims
Is2xx(status) == status \in 200..299

\* C7: fetchRequestHandler never rejects and produces exactly one response:
\* none while it runs, one when it has finished, and whatever its catch
\* block caught is answered with the envelope and status toError gives it.
C7_OneResponseNeverRejects ==
  T1.entry = "http" =>
    /\ ~T1.rejected
    /\ T1.responses = (IF T1.hpc = "done" THEN 1 ELSE 0)
    /\ T1.caught.kind = "exc" =>
         /\ T1.hpc = "done"
         /\ T1.response.body = rpcToErr(T1.caught.exc)[1]
         /\ T1.response.status = rpcToErr(T1.caught.exc)[2]

\* The resolver ran and returned a value the JSON encoder fails on; the
\* failure was caught and answered.
C7_Witness ==
  /\ T1.entry = "http" /\ T1.hpc = "done"
  /\ T1.resolverRuns = 1
  /\ T1.caught = Thrown(SerializeError)
  /\ T1.responses = 1 /\ T1.response.status = 500

\* C8: the status of every response is the table's status for the
\* envelope's code, and 500 when the code is not in the table.
C8_StatusMatchesCode ==
  (T1.entry = "http" /\ T1.responses = 1) =>
    T1.response.status = OrElse(CodeLookup(T1.response.body.code), 500)

\* C9: a response carries ok = true exactly when its status is 2xx.
C9_OkIff2xx ==
  (T1.entry = "http" /\ T1.responses = 1) =>
    (T1.response.body.ok <=> Is2xx(T1.response.status))

\* C10: when the lookup finds a procedure whose type differs from the
\* declared one, the response is 400 RPC_BAD_REQUEST and the procedure's
\* _call is never invoked.
C10_TypeMismatch ==
  (T1.entry = "http" /\ T1.looked = "found" /\ T1.envType # proc.type) =>
    /\ T1.hpc = "done"
    /\ T1.response.status = 400
    /\ T1.response.body.code = "RPC_BAD_REQUEST"
    /\ ~T1.response.body.ok
    /\ T1.st[0].starts = 0 /\ T1.resolverRuns = 0 /\ T1.res = None

C10_Witness ==
  /\ T1.entry = "http" /\ T1.looked = "found"
  /\ T1.envType = "mutation" /\ proc.type = "query"
  /\ T1.responses = 1 /\ T1.response.status = 400
  /\ T1.response.body.error.message = "Procedure type mismatch"

\* C11: no GET request makes the resolver of a mutation procedure run.
C11_GetOnlyQueries ==
  (T1.entry = "http" /\ T1.req.method = "GET" /\ proc.type = "mutation") =>
    T1.resolverRuns = 0

\* The procedure a chain of names reaches by walking the records from the
\* root: the set holding its definition, {} when the chain reaches none.
RECURSIVE walk(_, _)
walk(rec, path) ==
  IF path = <<>> THEN {}
  ELSE LET hits == MapGet(rec, Head(path)) IN
       IF hits = {} THEN {}
       ELSE LET node == CHOOSE n \in hits : TRUE IN
            IF Len(path) = 1
            THEN (IF isProcedure(node) THEN {node.def} ELSE {})
            ELSE IF isRPCRouter(node) THEN walk(node.record, Tail(path))
            ELSE {}

RequestPath == parsePath(T1.req.pathname, Len(Endpoint))
NoProcedureInvoked == T1.st[0].starts = 0 /\ T1.resolverRuns = 0 /\ T1.res = None
Answered(status, code) ==
  /\ T1.hpc = "done" /\ T1.responses = 1
  /\ T1.response.status = status
  /\ T1.response.body.code = code
  /\ ~T1.response.body.ok

\* C12 as stated: every answered request whose dotted path names no
\* procedure of the router is answered with 404 RPC_NOT_FOUND, and no
\* procedure is invoked.
C12_AsStated ==
  (T1.entry = "http" /\ T1.hpc = "done" /\ walk(appRouter.record, RequestPath) = {}) =>
    (Answered(404, "RPC_NOT_FOUND") /\ NoProcedureInvoked)

\* C12 amended: a request that reaches the lookup (prefix and method
\* accepted, context created, envelope parsed with type query or mutation)
\* and whose dotted path names no procedure - an unknown name, a sub-router,
\* the empty path - is answered with 404 RPC_NOT_FOUND, and no procedure is
\* invoked.
C12_NotFound ==
  (T1.entry = "http" /\ T1.looked # "none" /\ walk(appRouter.record, RequestPath) = {}) =>
    /\ T1.looked = "null"
    /\ Answered(404, "RPC_NOT_FOUND")
    /\ T1.response.body.error.message = "Procedure not found"
    /\ NoProcedureInvoked

\* The path names the sub-router `s`.
C12_Witness ==
  /\ T1.entry = "http" /\ T1.looked = "null"
  /\ RequestPath = <<<<"s">>>>
  /\ Answered(404, "RPC_NOT_FOUND")

\* The Accept values that mention application/cbor, and the Content-Type
\* values whose media type is application/cbor, among the header values of
\* Requests.
AcceptsCbor == {"application/cbor", "text/html, Application/CBOR;q=0.9"}
CborTypes == {"application/cbor", "Application/CBOR ; charset=binary"}

FirstMatchFormat(req) ==
  IF req.accept \in AcceptsCbor THEN "cbor"
  ELSE IF req.contentType \in CborTypes THEN "cbor"
  ELSE "json"

ContentTypeOf(format) == IF format = "cbor" THEN "application/cbor" ELSE "application/json"

C19_ForeignException ==
  (/\ T1.entry = "http" /\ T1.responses = 1
   /\ T1.resolved.kind = "exc" /\ T1.resolved.exc \in ForeignErrors
   /\ T1.reached = T1.resolved) =>
    /\ T1.response.status = 500
    /\ T1.response.body.code = "RPC_INTERNAL_SERVER_ERROR"
    /\ T1.response.body.error.message = T1.resolved.exc.message

\* A typed RPC error: what createRPCError returns.
IsTypedRPCError(v) == v.inst = "Error" /\ IsString(v.code) /\ v.issues # Undef

\* C20: rpcToErr(v) is an error envelope and a status; for a typed RPC error
\* the code, message and issues are v's and the status is the one mapped to
\* the code; for a value that is not exception-like the code is
\* RPC_INTERNAL_SERVER_ERROR, the message 'Unknown error', the status 500.
C20_ToError ==
  fx.applied =>
    LET v == fx.arg
        env == fx.out[1]
        status == fx.out[2]
    IN  /\ ~env.ok /\ env.code = env.error.code
        /\ IsTypedRPCError(v) =>
             /\ env.code = v.code
             /\ env.error.message = v.message
             /\ env.error.issues = v.issues
             /\ status = OrElse(CodeLookup(v.code), 500)
        /\ v.inst # "Error" =>
             /\ env.code = "RPC_INTERNAL_SERVER_ERROR"
             /\ env.error.message = "Unknown error"
             /\ env.error.issues = EmptyIssues
             /\ status = 500

\* A plain object that looks like an RPC error is not taken for one.
C20_Witness ==
  /\ fx.applied
  /\ fx.arg = ErrVal("object", "RPC_NOT_FOUND", "boom", SomeIssues)
  /\ fx.out[1].error.message = "Unknown error" /\ fx.out[2] = 500

\* ---------------------------------------------------------- router claims
\* The router as it was constructed.
RouterAsBuilt == view(InitialDefs, createRouter(RouterRecords[rw.shape]))

\* C13: in a router whose procedures are as constructed, a lookup by a
\* chain of names returns the very procedure the chain reaches, and null
\* when it reaches none, on the first lookup and on every later one.
C13_IndexConsistent ==
  (rw.op = "lookup" /\ rw.pristine) =>
    {r.id : r \in rw.result} = walk(RouterAsBuilt.record, rw.path)

\* A later lookup of a procedure three names deep.
C13_Witness ==
  /\ rw.op = "lookup" /\ rw.pristine /\ rw.n = MaxLookups
  /\ rw.path = <<<<"s">>, <<"t">>, <<"c">>>>
  /\ {r.id : r \in rw.result} = {1}

\* C14: whatever is written through the router after createRouter, every
\* path resolves to the procedure it resolved to at construction, with the
\* type and the entry point it had then.
C14_RouterImmutable ==
  rw.op = "lookup" =>
    rw.result = Resolved(InitialDefs, walk(RouterAsBuilt.record, rw.path))

\* C15: the kind tag, the type and the entry point of a procedure
\* definition stay as query()/mutation() made them.
C15_DefinitionImmutable ==
  \A id \in DefIds : rw.defs[id] = InitialDefs[id]

\* C16: the index exists exactly from the first lookup on and, once built,
\* it is the index every later lookup uses: its maps never change.
C16_IndexMemoized ==
  /\ [](ROUTER_INDEX.built <=> rw.n > 0)
  /\ [][ROUTER_INDEX.built => ROUTER_INDEX' = ROUTER_INDEX]_vars

\* After the index was built a procedure's kind tag was overwritten, and a
\* later lookup still went through the index built first.
C16_Witness ==
  /\ rw.op = "lookup" /\ rw.n = MaxLookups
  /\ rw.shape = 1 /\ rw.defs[1]._kind = "other"
  /\ getProcedureAtPath(ROUTER_INDEX, <<<<"a">>>>) = {1}
  /\ ROUTER_INDEX.routers # <<>>

\* C21: for an error value e, the first middleware returning
\* { ok: false, error: e } and the first middleware throwing e make _call
\* return the same envelope.
C21_ReturnedIsThrown ==
  LET s == T1.st[0] IN
  /\ (T1.entry = "call" /\ ReturnedErrorWithoutNext(0))
       => T1.res = callSettle(Thrown(s.ret.error))
  /\ (T1.entry = "call" /\ 0 < NMw /\ s.pc = "done" /\ s.nexts = <<>>
        /\ s.out.kind = "exc")
       => T1.res = Ret(dispatchResult(MwErr(s.out.exc)))

\* No middleware and no resolver was invoked for the call.
NothingInvoked ==
  /\ \A i \in 0..MaxMw : T1.st[i].starts = 0
  /\ T1.resolverRuns = 0

\* C22: with the mode on and input(schema) configured, a call whose raw
\* input the schema rejects returns the RPC_BAD_REQUEST envelope with the
\* validator's issues, and invokes no middleware and no resolver.
C22_InputRejected ==
  (T1.entry = "call" /\ cfg.input /\ cfg.mode = "on" /\ ~SchemaAccepts(T1.rawInput))
    => /\ T1.res = Ret(rpcErr("RPC_BAD_REQUEST", "Validation failed", SomeIssues))
       /\ NothingInvoked

\* C23: with the mode on and output(schema) configured, an ok envelope of
\* the resolver has its data replaced by the parsed data, ok and code kept;
\* data the schema rejects becomes the RPC_INTERNAL_SERVER_ERROR envelope
\* (unless a middleware handles the exception); an envelope that is not ok
\* passes unchanged.
C23_OutputParsed ==
  LET env == T1.resolved.env
      o == T1.st[NMw].out
  IN
  (T1.entry = "call" /\ cfg.output /\ cfg.mode = "on" /\ T1.resolved.kind = "env")
    => IF ~env.ok THEN o = Ret(env)
       ELSE IF SchemaAccepts(env.data)
       THEN o = Ret([env EXCEPT !.data = Data(env.data.v, TRUE)])
       ELSE /\ o.kind = "exc" /\ o.exc.code = INTERNAL
            /\ T1.reached = o
                 => T1.res = Ret(rpcErr(INTERNAL, "Output validation failed", SomeIssues))

InSeq(x, q) == \E j \in 1..Len(q) : q[j] = x

\* C24: calls of one procedure in flight together do not interfere.  A
\* next() of a call fails with 'next() called multiple times' only when
\* that call itself started the next stage before, a call returns that
\* error only for a repeated next() of its own, the resolver of a call
\* receives the caller's context of that call, refined by the middlewares
\* only, and returns the input of that call.
C24_CallsIsolated ==
  \A c \in CallIds :
    LET k == task[c]
        rctx == k.st[NMw].ctx
    IN
    /\ \A i \in 0..(MaxMw - 1) :
         InSeq(NextTwiceMsg, k.st[i].nexts) => k.st[i + 1].starts >= 1
    /\ (k.res.kind = "env" /\ ~k.res.env.ok /\ k.res.env.error.message = NextTwiceMsg)
         => \E i \in 0..(MaxMw - 1) : InSeq(NextTwiceMsg, k.st[i].nexts)
    /\ (k.entry = "call" /\ k.st[NMw].starts > 0)
         => /\ Head(rctx) = -c
            /\ \A j \in 2..Len(rctx) : InSeq(rctx[j], Mws)
    /\ (k.entry = "call" /\ k.resolved.kind = "env")
         => k.resolved.env.data \in ConcRawInputs(c)

\* Call 1 returned its own input, through a middleware that refined its
\* context, while call 2 waits in the same middleware for its resolver.
C24_Witness ==
  /\ NMw = 1
  /\ task[1].res = Ret(rpcOk(Data("ok", FALSE), "RPC_OK"))
  /\ task[1].st[1].ctx = <<-1, 1>>
  /\ task[2].st[0].pc = "await" /\ task[2].st[1].pc = "run"
  /\ task[2].st[1].ctx = <<-2>>

\* C25: when the call has returned, every middleware that invoked and
\* awaited next has finished, and one whose only next() was rejected by a
\* throwing downstream stage received that very exception before: the
\* result is never handed out over an unfinished middleware.
C25_UnwindBeforeResult ==
  T1.res.kind # "none" =>
    \A i \in 0..(MaxMw - 1) :
      (i < NMw /\ T1.st[i].nexts # <<>>) =>
        /\ T1.st[i].pc = "done" /\ T1.st[i + 1].pc = "done"
        /\ (Len(T1.st[i].nexts) = 1 /\ T1.st[i + 1].out.kind = "exc")
             => T1.st[i].got = T1.st[i + 1].out

\* The resolver threw under two middlewares; both received the exception,
\* finished, and then _call returned the error envelope.
C25_Witness ==
  /\ T1.entry = "call" /\ NMw = 2
  /\ T1.resolved = Thrown(ErrVal("Error", Undef, "boom", Undef))
  /\ T1.st[1].got = T1.resolved /\ T1.st[0].got = T1.resolved
  /\ T1.st[0].pc = "done" /\ T1.st[1].pc = "done"
  /\ T1.res = Ret(rpcErr(INTERNAL, "boom", Undef))

ErrorObjectIsBare(env) ==
  /\ DOMAIN env.error = {"code", "message", "issues"}
  /\ env.error.issues \in {EmptyIssues, SomeIssues}

\* C26: the error object of every error envelope the framework hands out,
\* as the result of _call or as the body of a response, has exactly the
\* fields code, message and issues - no stack, no cause - and its issues
\* are an array.
C26_NoStackNoCause ==
  /\ (T1.res.kind = "env" /\ ~T1.res.env.ok) => ErrorObjectIsBare(T1.res.env)
  /\ (T1.responses > 0 /\ ~T1.response.body.ok) => ErrorObjectIsBare(T1.response.body)

\* The resolver threw a foreign Error, which has a stack and is wrapped as
\* the cause of the typed error; the response carries neither.
C26_Witness ==
  /\ T1.responses = 1
  /\ T1.resolved = Thrown(ErrVal("Error", Undef, "boom", Undef))
  /\ T1.resolved.exc.stack # Undef
  /\ rpcErrorFrom(T1.resolved.exc).cause = Wrapped
  /\ T1.response.body = rpcErr(INTERNAL, "boom", Undef)

\* The middlewares a call has started, in order.
RECURSIVE Started(_)
Started(trace) ==
  IF trace = <<>> THEN <<>>
  ELSE LET e == Head(trace) IN
       (IF e[1] = "pre" THEN <<e[2]>> ELSE <<>>) \o Started(Tail(trace))

IsPrefix(p, q) == Len(p) <= Len(q) /\ SubSeq(q, 1, Len(p)) = p

\* C27: the chain of a procedure is composed once, by query()/mutation(),
\* from the middlewares in the order use() attached them; no call composes
\* a chain, and every call runs the middlewares of that one chain, in its
\* order.
C27_ComposedOnce ==
  proc.made =>
    /\ proc.composed = 1
    /\ proc.run = cfg.uses
    /\ \A c \in CallIds :
         /\ task[c].composed = 0
         /\ IsPrefix(Started(task[c].trace), proc.run)

\* Two calls of a procedure with a middleware ran to their end, each
\* through the one chain.
C27_Witness ==
  /\ proc.run = <<1>>
  /\ \A c \in CallIds :
       /\ task[c].res.kind = "env" /\ task[c].resolverRuns = 1
       /\ Started(task[c].trace) = proc.run

\* The builder in hand is as its own chain of transitions made it.
BuilderAsChained ==
  /\ state.middlewares = cfg.uses
  /\ state.validation = cfg.mode
  /\ state.inputSchema # Undef => cfg.input
  /\ state.outputSchema # Undef => cfg.output

\* C28: a transition whose result is kept aside leaves the builder it was
\* called on, and the procedure built from that builder, as they were; the
\* builder holds what its own chain of transitions gave it, and the
\* procedure holds the state and the chain of the builder it was built
\* from, whatever was derived from that builder before or after.
C28_BuilderFrame ==
  /\ [](BuilderAsChained /\ (proc.made => proc.state = state /\ proc.run = cfg.uses))
  /\ [][derived' # derived => (state' = state /\ proc' = proc)]_vars

\* A procedure was built from the builder with one middleware, another
\* middleware was then attached to the same builder on the side, and a call
\* of the procedure ran the one middleware only.
C28_Witness ==
  /\ proc.made /\ state.middlewares = <<1>>
  /\ derived.middlewares = <<1, OtherMw>>
  /\ Started(T1.trace) = <<1>> /\ T1.resolverRuns = 1 /\ T1.res.kind = "env"

\* C29: a request under the endpoint prefix whose method is neither GET nor
\* POST is answered 400 RPC_BAD_REQUEST; createContext is not invoked and
\* no procedure is invoked.
C29_MethodRejected ==
  (T1.entry = "http" /\ startsWith(T1.req.pathname, Endpoint)
     /\ T1.req.method \notin {"GET", "POST"}) =>
    /\ Answered(400, "RPC_BAD_REQUEST")
    /\ T1.response.body.error.message = "Only GET and POST are supported"
    /\ T1.contexts = 0 /\ T1.ctx = <<>>
    /\ T1.looked = "none" /\ NoProcedureInvoked

\* PUT /rpc/a, the path of a procedure, was answered.
C29_Witness ==
  /\ T1.entry = "http" /\ T1.req.method = "PUT"
  /\ RequestPath = <<<<"a">>>>
  /\ walk(appRouter.record, RequestPath) # {}
  /\ Answered(400, "RPC_BAD_REQUEST")

C30_WitnessJson ==
  /\ T1.entry = "http" /\ T1.req.contentType = "application/cbor-seq"
  /\ T1.req.body.shape = "garbage" /\ T1.contexts = 1
  /\ Answered(400, "RPC_BAD_REQUEST")
  /\ T1.response.body.error.message = "Invalid JSON body"

\* The URL {baseUrl}{endpoint}/{path}, with the default endpoint '/rpc',
\* for a base without a trailing '/', an endpoint with its leading '/' and
\* a path without one.
PlainClient ==
  /\ client.opts.baseUrl = "http://localhost"
  /\ client.opts.endpoint \in {Undef, "/rpc"}
  /\ client.path \in {"test.path", "hello"}

\* C31: query(path, input) issues a GET request to {baseUrl}{endpoint}/{path}
\* and mutation(path, input) issues a POST request to a URL of that shape.
C31_ClientMethods ==
  client.called =>
    /\ client.wrapper = "query" => client.fetched.method = "GET"
    /\ client.wrapper = "mutation" => client.fetched.method = "POST"
    /\ PlainClient => client.fetched.url = "http://localhost/rpc/" \o client.path

\* The URL and the method of mutation alone.
C31_UrlAndMutation ==
  client.called =>
    /\ client.wrapper = "mutation" => client.fetched.method = "POST"
    /\ PlainClient => client.fetched.url = "http://localhost/rpc/" \o client.path
    /\ (client.opts.baseUrl = "http://h//" /\ client.opts.endpoint = "api"
          /\ client.path = "/upload.deleteBucket")
         => client.fetched.url = "http://h/api/upload.deleteBucket"

PathOf(c) == parsePath(task[c].req.pathname, Len(Endpoint))

\* C32: with requests in flight together on a router without index, the
\* index that is cached is the mapping a sequential build of the router
\* gives, whichever request built it, and the lookup of every request finds
\* a procedure exactly when the router holds one at the path.
C32_IndexRace ==
  /\ ROUTER_INDEX.built =>
       /\ \A j \in 1..Len(ROUTER_INDEX.procs) :
            walk(appRouter.record, split(ROUTER_INDEX.procs[j][1], ".")) # {}
       /\ Len(ROUTER_INDEX.procs) = 2 /\ Len(ROUTER_INDEX.routers) = 1
  /\ \A c \in CallIds :
       task[c].looked # "none" =>
         /\ ROUTER_INDEX.built
         /\ task[c].looked = "found" <=> walk(appRouter.record, PathOf(c)) # {}

\* Two requests began before the index existed; both found their
\* procedure, one at the top and one in the sub-router.
C32_Witness ==
  /\ \A c \in CallIds : task[c].entry = "http" /\ ~task[c].indexed
                          /\ task[c].looked = "found"
  /\ PathOf(1) = <<<<"a">>>> /\ PathOf(2) = <<<<"s">>, <<"b">>>>
  /\ ROUTER_INDEX.built

\* C33: in a record that holds both a leaf named 'a.b' and a chain a -> b,
\* the lookup of the path a.b returns the leaf named with the whole path,
\* whatever the order of the keys.
C33_LeafWins ==
  (rw.op = "lookup" /\ rw.path = <<<<"a">>, <<"b">>>>) =>
    {r.id : r \in rw.result} = {e.def : e \in MapGet(rw.record, <<"a", ".", "b">>)}

\* C34: a request whose pathname starts with the characters of the prefix
\* but does not go on with '/' (prefix '/rpc', pathname '/rpca') never has a
\* procedure looked up or invoked and is answered 404 RPC_NOT_FOUND.
C34_PrefixBoundary ==
  (/\ T1.entry = "http" /\ startsWith(T1.req.pathname, Endpoint)
   /\ Len(T1.req.pathname) > Len(Endpoint)
   /\ T1.req.pathname[Len(Endpoint) + 1] # "/") =>
    /\ T1.looked # "found" /\ NoProcedureInvoked
    /\ T1.hpc = "done" => Answered(404, "RPC_NOT_FOUND")

\* C35: for a request that passes the prefix and method checks createContext
\* is invoked exactly once, before the body is read and before the lookup,
\* and what it returned is the context the first stage of the chain (the
\* first middleware, or the resolver when there is none) is called with.
PassedChecks(k) ==
  /\ k.entry = "http" /\ startsWith(k.req.pathname, Endpoint)
  /\ methodSupported(k.req.method)
C35_ContextOnceFirst ==
  \A c \in CallIds :
    LET k == task[c] IN
    PassedChecks(k) =>
      /\ k.contexts <= 1
      /\ k.hpc = "ctx" <=> k.contexts = 0
      /\ k.contexts = 0 =>
           (k.envType = Undef /\ k.looked = "none" /\ k.caught = None
              /\ k.st[0].starts = 0)
      /\ k.st[0].starts > 0 =>
           (k.contexts = 1 /\ k.ctx = <<"ctx">> /\ k.st[0].ctx = k.ctx)

\* A request went through a middleware and the resolver.
C35_Witness ==
  /\ PassedChecks(T1) /\ T1.hpc = "done" /\ T1.contexts = 1
  /\ NMw = 1 /\ T1.st[0].starts = 1 /\ T1.resolverRuns = 1
  /\ T1.st[0].ctx = <<"ctx">>

\* C36: stage i+1 is called with exactly the context stage i passed to
\* next({ ctx }), or with stage i's own context when stage i called next
\* without one; and the context a stage was called with, and the one it
\* passed on, are never changed afterwards.
HandedOn(k) ==
  \A i \in 0..(NMw - 1) :
    k.st[i + 1].starts > 0 =>
      /\ k.st[i].starts > 0
      /\ k.st[i + 1].ctx =
           (IF k.st[i].opts.has THEN k.st[i].opts.ctx ELSE k.st[i].ctx)
ContextsKept(k, kNext) ==
  \A i \in 0..MaxMw :
    k.st[i].starts > 0 =>
      /\ kNext.st[i].ctx = k.st[i].ctx
      /\ k.st[i].opts.has => kNext.st[i].opts = k.st[i].opts
C36_ContextHandedOn ==
  /\ [](\A c \in CallIds : HandedOn(task[c]))
  /\ [][\A c \in CallIds : ContextsKept(task[c], task'[c])]_vars

\* Two middlewares ran: the first passed a context of its own, the second
\* called next without one, and the resolver got the context of the first.
C36_Witness ==
  /\ NMw = 2 /\ T1.resolverRuns = 1
  /\ T1.st[0].opts.has /\ T1.st[0].opts.ctx # T1.st[0].ctx
  /\ ~T1.st[1].opts.has
  /\ T1.st[2].ctx = T1.st[0].opts.ctx

\* C37: for a GET request the envelope's type is the `type` parameter, or
\* 'query' when there is none; its input is the JSON-decoded `input`
\* parameter, or that parameter's raw string when it is not JSON; with no
\* `input` parameter the input is the flat object of every parameter other
\* than `type`, or undefined when there is none.
FirstOf(q, key) == q[CHOOSE j \in 1..Len(q) :
                       q[j][1] = key /\ \A h \in 1..(j - 1) : q[h][1] # key][2]
HasParam(q, key) == \E j \in 1..Len(q) : q[j][1] = key
IsFlatObjectOf(obj, q) ==
  LET others == {j \in 1..Len(q) : q[j][1] # "type"} IN
  /\ {obj[j][1] : j \in 1..Len(obj)} = {q[j][1] : j \in others}
  /\ \A j, h \in 1..Len(obj) : obj[j][1] = obj[h][1] => j = h
  /\ \A j \in 1..Len(obj) : \E h \in others : q[h] = obj[j]
C37_GetEnvelope ==
  getUrl.parsed =>
    LET q == getUrl.query
        e == getUrl.envelope
    IN  /\ ~e.threw
        /\ e.type = (IF HasParam(q, "type") THEN FirstOf(q, "type") ELSE "query")
        /\ HasParam(q, "input") =>
             LET text == FirstOf(q, "input") IN
             e.rawInput = (IF text \in JsonTexts THEN Data(jsonParse(text), FALSE)
                           ELSE Data(text, FALSE))
        /\ (~HasParam(q, "input") /\ \E j \in 1..Len(q) : q[j][1] # "type") =>
             (e.rawInput = Data("params", FALSE) /\ IsFlatObjectOf(e.obj, q))
        /\ (\A j \in 1..Len(q) : q[j][1] = "type") => e.rawInput = Data(Undef, FALSE)

\* ?type=mutation&x=1 was parsed: a mutation whose input is { x: '1' }.
C37_Witness ==
  /\ getUrl.parsed
  /\ getUrl.query = << <<"type", "mutation">>, <<"x", "1">> >>
  /\ getUrl.envelope.type = "mutation"
  /\ getUrl.envelope.obj = << <<"x", "1">> >>

\* C38: in one _call the user resolver is invoked at most once, and only if
\* input validation passed and every middleware invoked next; a middleware
\* that returned without calling next keeps the resolver from running.
InputValidationPassed(k) ==
  (proc.state.inputSchema # Undef /\ proc.state.validation = "on") =>
    ~parseInput(proc.state.inputSchema, k.rawInput).threw
CalledNext(k, i) == \E j \in 1..Len(k.st[i].nexts) : k.st[i].nexts[j] = "started"
C38_ResolverGuarded ==
  \A c \in CallIds :
    LET k == task[c] IN
    k.entry \in {"call", "http"} =>
      /\ k.resolverRuns <= 1
      /\ k.resolverRuns = 1 =>
           (InputValidationPassed(k) /\ \A i \in 0..(NMw - 1) : CalledNext(k, i))
      /\ \A i \in 0..(NMw - 1) :
           (k.st[i].pc = "done" /\ ~CalledNext(k, i)) => k.resolverRuns = 0

\* A call with a valid input went through the middleware to the resolver.
C38_Witness ==
  /\ T1.entry = "call" /\ NMw = 1 /\ T1.resolverRuns = 1
  /\ proc.state.inputSchema # Undef /\ proc.state.validation = "on"
  /\ CalledNext(T1, 0) /\ T1.res # None

\* A middleware returned without calling next and the call ended.
C38_WitnessShortCircuit ==
  /\ T1.entry = "call" /\ NMw = 1 /\ T1.st[0].pc = "done"
  /\ ~CalledNext(T1, 0) /\ T1.resolverRuns = 0 /\ T1.res # None

\* C39: each transition of the builder changes only its own component: use
\* appends one middleware and keeps both schemas and the mode; input and
\* output set one schema and keep the other schema, the middlewares and the
\* mode; validation sets the mode and keeps the middlewares and both schemas
\* set before it.
OnlyMiddlewares(s, t) ==
  /\ \E mw \in {t.middlewares[Len(t.middlewares)]} :
       t.middlewares = Append(s.middlewares, mw)
  /\ t.inputSchema = s.inputSchema /\ t.outputSchema = s.outputSchema
  /\ t.validation = s.validation
OnlyInputSchema(s, t) ==
  /\ t.middlewares = s.middlewares /\ t.outputSchema = s.outputSchema
  /\ t.validation = s.validation
OnlyOutputSchema(s, t) ==
  /\ t.middlewares = s.middlewares /\ t.inputSchema = s.inputSchema
  /\ t.validation = s.validation
OnlyMode(s, t) ==
  /\ t.middlewares = s.middlewares /\ t.inputSchema = s.inputSchema
  /\ t.outputSchema = s.outputSchema
C39_BuilderFrame ==
  [][state' # state =>
       IF Len(state'.middlewares) # Len(state.middlewares)
       THEN OnlyMiddlewares(state, state')
       ELSE \/ OnlyInputSchema(state, state')
            \/ OnlyOutputSchema(state, state')
            \/ OnlyMode(state, state')]_vars

====
